---- MODULE Spec2Model ----
(***************************************************************************)
(* counterd: distinct-count service.  A model of the approximate store     *)
(* (RedisClient), the snapshotter (Snapshotter.Run, FilterKeys, ParseKey), *)
(* the relational writer (PGDatabase), the server's cron-driven snapshot    *)
(* job and the ingress API (NewHTTPHandler, APIHandler.Ingress,            *)
(* IngressRequest, DateIntervals, RequestCounterKeys).                     *)
(*                                                                         *)
(* Representation.  A raw key is the sequence of its ':'-separated         *)
(* segments: strings.Split(raw, ":") is a bijection between strings and    *)
(* non-empty sequences of ':'-free strings, so <<"day","2017-01-18",       *)
(* "foo","bar">> stands for "day:2017-01-18:foo:bar".  Time is counted in  *)
(* hours since 2017-01-01T00:00:00Z; the time.Time of an event carries its *)
(* location as well.                                                       *)
(***************************************************************************)
EXTENDS Integers, Sequences, FiniteSets, TLC

VARIABLES
    counters,        \* approximate store: raw key -> set of ids
    nEvents,         \* number of UpdateKeys calls made so far
    added,           \* keys written by UpdateKeys since the running Run listed
    clock,           \* index of the current instant in Instants
    pc,              \* position of Snapshotter.Run
    keys,            \* Run: result of ListKeys
    parsed,          \* Run: parsed keys
    invalid,         \* Run: keys that failed to parse
    updateThreshold, \* Run: now - config.Snapshot.UpdateThreshold
    deleteThreshold, \* Run: now - config.Snapshot.DeleteThreshold
    update,          \* Run: update partition (Count filled by GetCounts)
    ignore,          \* Run: ignore partition
    delete,          \* Run: delete partition
    runErr,          \* Run: the error value returned
    runLog,          \* Run: the collaborator calls made so far, in order
    nRuns,           \* number of Runs started so far
    parseCall,       \* the last direct call of ParseKey and what it returned
    dbCounters,      \* counters table: <<interval, date, attributes>> -> count
    dbDomain,        \* attributes_domain table: set of <<attribute, value>>
    attrCache,       \* PGDatabase.attrCache: set of <<attribute, value>>
    counterCache,    \* PGDatabase.counterCache: raw key -> last count
    dbLast,          \* the last relational call: its rows and its error
    dbPrev,          \* the direct relational call made before the last one
    dbTxs,           \* the last direct relational call: its working set and
                     \* the transactions it opened, in order
    uncached,        \* the tables the direct relational calls made so far
                     \* give when both caches are disabled
    nCalls,          \* number of direct relational calls made so far
    jobs,            \* cron: position of each fired job goroutine
    snapshotLock,    \* cron: holder of the mutex, 0 when free
    contended,       \* cron: jobs that fired while the mutex was held
    nFires,          \* cron: number of times the cron has fired
    authConfig,      \* api: config.Auth
    attrConfig,      \* api: config.Attributes
    request,         \* api: the last HTTP request served
    status,          \* api: the status code of its response
    event,           \* api: the IngressRequest after Validate and Filter
    intervals,       \* api: the labels DateIntervals gave, by interval
    reqKeys,         \* api: the keys RequestCounterKeys returned
    updateCall,      \* api: the UpdateKeys call of the last request, if any
    nReqs,           \* api: number of HTTP requests served so far
    redis,           \* redis: the keyspace of the server, name -> set of ids
    upd,             \* redis: the UpdateKeys call of the pooled client in flight
    scan,            \* redis: the ListKeys call of the pooled client in flight
    reply,           \* redis: the last call of the pooled client that returned
    pairs,           \* the <<key, id>> pairs added by the UpdateKeys calls
    nOps             \* redis: number of calls of the pooled client so far

storeVars == <<counters, nEvents, added, clock>>
runVars   == <<pc, keys, parsed, invalid, updateThreshold, deleteThreshold,
               update, ignore, delete, runErr, runLog, nRuns,
               parseCall>>
dbVars    == <<dbCounters, dbDomain, attrCache, counterCache, dbLast, dbPrev,
               dbTxs, uncached, nCalls>>
cronVars  == <<jobs, snapshotLock, contended, nFires>>
apiVars   == <<authConfig, attrConfig, request, status, event, intervals,
               reqKeys, updateCall, nReqs>>
redisVars == <<redis, upd, scan, reply, pairs, nOps>>
vars      == <<storeVars, runVars, dbVars, cronVars, apiVars, redisVars>>

----------------------------------------------------------------------------
(* Time *)

Hour == 1

\* The error value nil, and an error carrying a message and its argument.
Nil == <<>>
Errorf(msg, arg) == <<msg, arg>>

\* time.Parse for the two layouts ParseKey uses, on the labels of the model;
\* every other string is not a date of the layout.
DayLayout   == "2006-01-02"
MonthLayout == "2006-01"

Day == 24 * Hour

\* The calendar days of the model around its clock, from Sunday 2016-12-25
\* to Saturday 2017-02-04; day 0 is Sunday 2017-01-01.
Calendar == <<
    "2016-12-25", "2016-12-26", "2016-12-27", "2016-12-28", "2016-12-29",
    "2016-12-30", "2016-12-31", "2017-01-01", "2017-01-02", "2017-01-03",
    "2017-01-04", "2017-01-05", "2017-01-06", "2017-01-07", "2017-01-08",
    "2017-01-09", "2017-01-10", "2017-01-11", "2017-01-12", "2017-01-13",
    "2017-01-14", "2017-01-15", "2017-01-16", "2017-01-17", "2017-01-18",
    "2017-01-19", "2017-01-20", "2017-01-21", "2017-01-22", "2017-01-23",
    "2017-01-24", "2017-01-25", "2017-01-26", "2017-01-27", "2017-01-28",
    "2017-01-29", "2017-01-30", "2017-01-31", "2017-02-01", "2017-02-02",
    "2017-02-03", "2017-02-04" >>

FirstDay == 0 - 7

\* Two weeks around Sunday 2017-03-12, day 70.
CalendarMarch == <<
    "2017-03-05", "2017-03-06", "2017-03-07", "2017-03-08", "2017-03-09",
    "2017-03-10", "2017-03-11", "2017-03-12", "2017-03-13", "2017-03-14",
    "2017-03-15", "2017-03-16", "2017-03-17", "2017-03-18" >>

FirstDayMarch == 9 * 7

\* The first week of the year 0000, the earliest year time.Parse reads and
\* JSON carries; 0000-01-01 is a Saturday, 736695 days before day 0.
CalendarYearZero == <<
    "0000-01-01", "0000-01-02", "0000-01-03", "0000-01-04", "0000-01-05",
    "0000-01-06", "0000-01-07" >>

FirstDayYearZero == 0 - 736695

\* The last days of the year before, as Format writes them: the year with
\* its sign.  time.Parse wants four digits for "2006" and takes none of
\* these.
CalendarBeforeYearZero == <<
    "-0001-12-26", "-0001-12-27", "-0001-12-28", "-0001-12-29",
    "-0001-12-30", "-0001-12-31" >>

FirstDayBeforeYearZero == FirstDayYearZero - 6

\* The stretches of days the model has labels for.
Windows == <<
    [first |-> FirstDayBeforeYearZero, labels |-> CalendarBeforeYearZero,
     parses |-> FALSE],
    [first |-> FirstDayYearZero, labels |-> CalendarYearZero, parses |-> TRUE],
    [first |-> FirstDay, labels |-> Calendar, parses |-> TRUE],
    [first |-> FirstDayMarch, labels |-> CalendarMarch, parses |-> TRUE] >>

\* The months of the calendar and the day each begins.
Months == <<[label |-> "-0001-12", first |-> FirstDayYearZero - 31,
             parses |-> FALSE],
            [label |-> "0000-01", first |-> FirstDayYearZero, parses |-> TRUE],
            [label |-> "2016-12", first |-> 0 - 31, parses |-> TRUE],
            [label |-> "2017-01", first |-> 0, parses |-> TRUE],
            [label |-> "2017-02", first |-> 31, parses |-> TRUE],
            [label |-> "2017-03", first |-> 59, parses |-> TRUE]>>

\* The day of the label l of the window w.
DayOfLabel(w, l) ==
    w.first - 1 + CHOOSE i \in 1..Len(w.labels) : w.labels[i] = l

\* time.Parse(DayLayout, label): midnight UTC of the day.
DayLabels ==
    LET ws == {Windows[i] : i \in 1..Len(Windows)}
        ls == UNION {{w.labels[i] : i \in 1..Len(w.labels)} :
                        w \in {x \in ws : x.parses}}
    IN  [l \in ls |->
            DayOfLabel(CHOOSE w \in ws :
                           \E i \in 1..Len(w.labels) : w.labels[i] = l, l)
                * Day]

\* time.Parse(MonthLayout, label): midnight UTC of the first of the month.
MonthLabels ==
    LET ms == {Months[i] : i \in 1..Len(Months)} IN
    [l \in {m.label : m \in {x \in ms : x.parses}} |->
        (CHOOSE m \in ms : m.label = l).first * Day]

TimeParse(layout, value) ==
    LET table == IF layout = DayLayout THEN DayLabels ELSE MonthLabels
    IN  IF value \in DOMAIN table
        THEN [t |-> table[value], err |-> Nil]
        ELSE [t |-> 0, err |-> Errorf("parsing time", value)]

\* t.Format(layout) for a time t in UTC within the calendar.
TimeFormat(layout, t) ==
    LET d == t \div Day IN
    IF layout = DayLayout
    THEN LET w == CHOOSE x \in {Windows[i] : i \in 1..Len(Windows)} :
                      x.first <= d /\ d < x.first + Len(x.labels)
         IN  w.labels[d - w.first + 1]
    ELSE LET i == CHOOSE j \in 1..Len(Months) :
                      /\ Months[j].first <= d
                      /\ \A k \in 1..Len(Months) :
                             Months[k].first <= d => k <= j
         IN  Months[i].label

\* t.Weekday() for a time t in UTC: 0 is Sunday.
Weekday(t) == (t \div Day) % 7

\* A time.Time is an instant t with a location: UTC, what time.Now().UTC()
\* and a JSON date ending in "Z" carry, or Local, what a JSON date carries
\* whose offset is the one in force in the local zone of the process.
UTC   == "UTC"
Local == "Local"
Locations == {UTC, Local}

\* Local observes the rules of America/New_York: five hours behind UTC
\* until 2017-03-12T07:00Z, four hours behind from then on.
DSTBegins == (70 * 24 + 7) * Hour

ZoneOffset(loc, t) ==
    IF loc = UTC THEN 0
    ELSE IF t < DSTBegins THEN 0 - 5 * Hour ELSE 0 - 4 * Hour

\* The wall clock of the time d, as a UTC instant with the same reading.
Wall(d) == d.t + ZoneOffset(d.loc, d.t)

\* d.Add(h), d.Format(layout), d.Weekday()
Add(d, h) == [d EXCEPT !.t = @ + h]
Format(d, layout) == TimeFormat(layout, Wall(d))
WeekdayOf(d) == Weekday(Wall(d))

\* The time.Time of the UTC instant t.
InUTC(t) == [t |-> t, loc |-> UTC]

----------------------------------------------------------------------------
(* Key codec: ParseKey, ParseKeyList, ParsedList.Keys *)

Max(S) == CHOOSE x \in S : \A y \in S : y <= x

\* The loop over the K/V segments: a later pair overwrites an earlier one.
ParseAttributes(parts) ==
    LET n  == Len(parts) \div 2
        ks == {parts[2 * i - 1] : i \in 1..n}
    IN  [k \in ks |-> parts[2 * Max({i \in 1..n : parts[2 * i - 1] = k})]]

NoKey == [Raw |-> <<>>, Interval |-> "", Date |-> 0,
          Attributes |-> <<>>, Count |-> 0]

\* ParseKey testing the number of K/V segments before the interval and the
\* date
ParseKeyEvenFirst(raw) ==
    LET parts == raw IN
    IF Len(parts) < 4
    THEN [key |-> NoKey, err |-> Errorf("invalid format", "")]
    ELSE
    LET interval == parts[1]
        date == CASE interval = "day"   -> TimeParse(DayLayout, parts[2])
                  [] interval = "week"  -> TimeParse(DayLayout, parts[2])
                  [] interval = "month" -> TimeParse(MonthLayout, parts[2])
                  [] OTHER -> [t |-> 0, err |-> Nil]
        rest == SubSeq(parts, 3, Len(parts))
    IN  IF Len(rest) % 2 # 0
        THEN [key |-> NoKey,
              err |-> Errorf("key/value attributes not even", "")]
        ELSE IF interval \notin {"day", "week", "month"}
        THEN [key |-> NoKey, err |-> Errorf("invalid interval", interval)]
        ELSE IF date.err # Nil
        THEN [key |-> NoKey, err |-> Errorf("invalid date", parts[2])]
        ELSE [key |-> [Raw |-> raw, Interval |-> interval, Date |-> date.t,
                       Attributes |-> ParseAttributes(rest), Count |-> 0],
              err |-> Nil]

ParseKey(raw) ==
    LET parts == raw IN
    IF Len(parts) < 4
    THEN [key |-> NoKey, err |-> Errorf("invalid format", "")]
    ELSE
    LET interval == parts[1]
        date == CASE interval = "day"   -> TimeParse(DayLayout, parts[2])
                  [] interval = "week"  -> TimeParse(DayLayout, parts[2])
                  [] interval = "month" -> TimeParse(MonthLayout, parts[2])
                  [] OTHER -> [t |-> 0, err |-> Nil]
        rest == SubSeq(parts, 3, Len(parts))
    IN  IF interval \notin {"day", "week", "month"}
        THEN [key |-> NoKey, err |-> Errorf("invalid interval", interval)]
        ELSE IF date.err # Nil
        THEN [key |-> NoKey, err |-> Errorf("invalid date", parts[2])]
        ELSE IF Len(rest) % 2 # 0
        THEN [key |-> NoKey,
              err |-> Errorf("key/value attributes not even", "")]
        ELSE [key |-> [Raw |-> raw, Interval |-> interval, Date |-> date.t,
                       Attributes |-> ParseAttributes(rest), Count |-> 0],
              err |-> Nil]

\* No direct call of ParseKey has been made.
NoParse == [raw |-> <<>>, key |-> NoKey, err |-> Nil]

\* ParseKeyList returning at the first entry that fails to parse
RECURSIVE ParseKeyLoopAbort(_, _, _)
ParseKeyLoopAbort(ks, i, acc) ==
    IF i > Len(ks) THEN acc
    ELSE LET r == ParseKey(ks[i]) IN
         IF r.err # Nil
         THEN [acc EXCEPT !.invalid = Append(@, ks[i])]
         ELSE ParseKeyLoopAbort(ks, i + 1,
                  [acc EXCEPT !.out = Append(@, r.key)])

RECURSIVE ParseKeyLoop(_, _, _)
ParseKeyLoop(ks, i, acc) ==
    IF i > Len(ks) THEN acc
    ELSE LET r == ParseKey(ks[i]) IN
         IF r.err # Nil
         THEN ParseKeyLoop(ks, i + 1,
                  [acc EXCEPT !.invalid = Append(@, ks[i])])
         ELSE ParseKeyLoop(ks, i + 1,
                  [acc EXCEPT !.out = Append(@, r.key)])

ParseKeyList(ks) == ParseKeyLoop(ks, 1, [out |-> <<>>, invalid |-> <<>>])

\* ParsedList.Keys
Keys(l) == [i \in 1..Len(l) |-> l[i].Raw]

----------------------------------------------------------------------------
(* FilterKeys *)

Before(t, u) == t < u
After(t, u)  == t > u

Delta(interval) ==
    CASE interval = "day"   -> 24 * Hour
      [] interval = "week"  -> 7 * 24 * Hour
      [] interval = "month" -> 31 * 24 * Hour

NoPartition == [update |-> <<>>, ignore |-> <<>>, delete |-> <<>>]

\* FilterKeys with the 'continue' after the delete branch left out
RECURSIVE FilterLoopNoContinue(_, _, _, _, _)
FilterLoopNoContinue(ks, i, ut, dt, acc) ==
    IF i > Len(ks) THEN acc
    ELSE LET key == ks[i]
             a1  == IF Before(key.Date, dt)
                    THEN [acc EXCEPT !.delete = Append(@, key)] ELSE acc
         IN  IF After(key.Date + Delta(key.Interval), ut)
             THEN FilterLoopNoContinue(ks, i + 1, ut, dt,
                      [a1 EXCEPT !.update = Append(@, key)])
             ELSE FilterLoopNoContinue(ks, i + 1, ut, dt,
                      [a1 EXCEPT !.ignore = Append(@, key)])

\* FilterKeys with both comparisons made inclusive
RECURSIVE FilterLoopInclusive(_, _, _, _, _)
FilterLoopInclusive(ks, i, ut, dt, acc) ==
    IF i > Len(ks) THEN acc
    ELSE LET key == ks[i] IN
         IF key.Date <= dt
         THEN FilterLoopInclusive(ks, i + 1, ut, dt,
                  [acc EXCEPT !.delete = Append(@, key)])
         ELSE IF key.Date + Delta(key.Interval) >= ut
         THEN FilterLoopInclusive(ks, i + 1, ut, dt,
                  [acc EXCEPT !.update = Append(@, key)])
         ELSE FilterLoopInclusive(ks, i + 1, ut, dt,
                  [acc EXCEPT !.ignore = Append(@, key)])

\* FilterKeys deleting what is older than the update threshold
RECURSIVE FilterLoopDeleteByUpdate(_, _, _, _, _)
FilterLoopDeleteByUpdate(ks, i, ut, dt, acc) ==
    IF i > Len(ks) THEN acc
    ELSE LET key == ks[i] IN
         IF Before(key.Date, ut)
         THEN FilterLoopDeleteByUpdate(ks, i + 1, ut, dt,
                  [acc EXCEPT !.delete = Append(@, key)])
         ELSE IF After(key.Date + Delta(key.Interval), ut)
         THEN FilterLoopDeleteByUpdate(ks, i + 1, ut, dt,
                  [acc EXCEPT !.update = Append(@, key)])
         ELSE FilterLoopDeleteByUpdate(ks, i + 1, ut, dt,
                  [acc EXCEPT !.ignore = Append(@, key)])

RECURSIVE FilterLoop(_, _, _, _, _)
FilterLoop(ks, i, ut, dt, acc) ==
    IF i > Len(ks) THEN acc
    ELSE LET key == ks[i] IN
         IF Before(key.Date, dt)
         THEN FilterLoop(ks, i + 1, ut, dt,
                  [acc EXCEPT !.delete = Append(@, key)])
         ELSE IF After(key.Date + Delta(key.Interval), ut)
         THEN FilterLoop(ks, i + 1, ut, dt,
                  [acc EXCEPT !.update = Append(@, key)])
         ELSE FilterLoop(ks, i + 1, ut, dt,
                  [acc EXCEPT !.ignore = Append(@, key)])

FilterKeys(ks, ut, dt) == FilterLoop(ks, 1, ut, dt, NoPartition)

----------------------------------------------------------------------------
(* Bounds of the model *)

MaxEvents    == 2   \* UpdateKeys calls
MaxRuns      == 2   \* Snapshotter.Run calls
NumInstants  == 2   \* instants the clock passes through
MaxCalls     == 2   \* direct relational calls
MaxCount     == 2   \* largest count of a direct UpsertCounters record
MaxLen       == 2   \* longest list handed to FilterKeys or UpsertCounters
MaxJobs      == 2   \* cron fires whose goroutines are alive at once
MaxFires     == 3   \* cron fires
MaxReqs      == 2   \* HTTP requests served
MaxAttrs     == 2   \* attributes of a request
MaxOps       == 3   \* calls of the pooled client

----------------------------------------------------------------------------
(* The approximate store: the RedisClient interface.  The state and the    *)
(* successful outcomes are those of MockRedisClient; every call may also   *)
(* return an error, as PooledClient's calls do.                            *)

IOError == Errorf("redis", "i/o")

\* The keys of the model, in the order sort.Strings gives them.
StringOrder == <<
    <<"day", "2017-01-01", "zip", "zap">>,
    <<"day", "2017-01-10", "foo", "baz">>,
    <<"day", "2017-01-18", "foo", "bar">>,
    <<"month">> >>

RawKeys == {StringOrder[i] : i \in 1..Len(StringOrder)}

Ids == {"1234", "2345"}

SortStrings(S) == SelectSeq(StringOrder, LAMBDA k : k \in S)

Range(q) == {q[i] : i \in 1..Len(q)}

\* UpdateKeys storing the id in place of the ids a key holds
StoreUpdateKeysReplace(store, ks, id) ==
    [k \in DOMAIN store \cup Range(ks) |->
        IF k \in Range(ks) THEN {id} ELSE store[k]]

\* MockRedisClient.UpdateKeys
StoreUpdateKeys(store, ks, id) ==
    [k \in DOMAIN store \cup Range(ks) |->
        IF k \in Range(ks)
        THEN (IF k \in DOMAIN store THEN store[k] ELSE {}) \cup {id}
        ELSE store[k]]

\* MockRedisClient.ListKeys
StoreListKeys(store) == SortStrings(DOMAIN store)

\* GetCounts answering the counts in the reverse of the request order
StoreGetCountsReversed(store, ks) ==
    [i \in 1..Len(ks) |->
        IF ks[Len(ks) + 1 - i] \in DOMAIN store
        THEN Cardinality(store[ks[Len(ks) + 1 - i]]) ELSE 0]

\* MockRedisClient.GetCounts
StoreGetCounts(store, ks) ==
    [i \in 1..Len(ks) |->
        IF ks[i] \in DOMAIN store THEN Cardinality(store[ks[i]]) ELSE 0]

\* DeleteKeys naming keys the store does not hold (the names sent without
\* the namespace prefix the keys are stored under): nothing is deleted
StoreDeleteKeysUnprefixed(store, ks) == store

\* DeleteKeys removing every key of the store
StoreDeleteKeysFlush(store, ks) == [k \in {} |-> {}]

\* MockRedisClient.DeleteKeys
StoreDeleteKeys(store, ks) ==
    [k \in DOMAIN store \ Range(ks) |-> store[k]]

\* The key lists one UpdateKeys call carries: any single key, or the three
\* counter keys of TestSnapshotter together.
Batches ==
    {<<k>> : k \in RawKeys} \cup
    {<<StringOrder[3], StringOrder[2], StringOrder[1]>>}

\* UpdateKeys(keys, id), as the ingress handler and the tests call it; an
\* error leaves the store as it was.
UpdateKeys(ks, id, fail) ==
    /\ nEvents < MaxEvents
    /\ nEvents' = nEvents + 1
    /\ counters' = IF fail THEN counters ELSE StoreUpdateKeys(counters, ks, id)
    /\ added' = IF fail \/ pc = "idle" THEN added ELSE added \cup Range(ks)
    /\ UNCHANGED <<clock, runVars, dbVars>>

----------------------------------------------------------------------------
(* Configuration and clock *)

\* TestSnapshotter's configuration: the default update threshold and a
\* delete threshold of 14 days.
UpdateThreshold == 3 * Hour
DeleteThreshold == 14 * 24 * Hour

\* 2017-01-18T12:00:00Z, the run time of TestSnapshotter.
RunTime == 420 * Hour

\* The instants at which time.Now() is read: a week apart.
Instant(i) == RunTime + (i - 1) * 7 * 24 * Hour

\* Time passes.  Run reads the clock once, in the argument of its call
\* (time.Now().UTC()), so only the time that has passed between runs shows.
Tick ==
    /\ clock < NumInstants
    /\ pc = "idle"
    /\ clock' = clock + 1
    /\ UNCHANGED <<counters, nEvents, added, runVars, dbVars>>

----------------------------------------------------------------------------
(* The relational writer: PGDatabase.UpsertCounters, UpsertDomain *)

TransactionSizeLimit == 256

DBError == Errorf("pq", "i/o")

\* Where a call may fail: getting the connection, or, in the chunk numbered
\* chunk, beginning the transaction, executing a row statement or committing.
NoFault == [kind |-> "none", chunk |-> 0]

NumChunks(n) == (n + TransactionSizeLimit - 1) \div TransactionSizeLimit

Faults(n) ==
    {NoFault, [kind |-> "conn", chunk |-> 0]} \cup
    {[kind |-> k, chunk |-> c] :
        k \in {"begin", "exec", "commit"}, c \in 1..NumChunks(n)}

Min(a, b) == IF a < b THEN a ELSE b
Greatest(a, b) == IF a > b THEN a ELSE b

\* The row a counter is stored under: UNIQUE (interval, date, attributes).
RowOf(c) == <<c.Interval, c.Date, c.Attributes>>

\* upsertCounterSQL with the conflict clause writing EXCLUDED.count
UpsertCounterRowOverwrite(table, c) ==
    IF RowOf(c) \in DOMAIN table
    THEN [table EXCEPT ![RowOf(c)] = c.Count]
    ELSE table @@ (RowOf(c) :> c.Count)

\* upsertCounterSQL: INSERT ... ON CONFLICT (interval, date, attributes)
\* DO UPDATE SET count = GREATEST(EXCLUDED.count, counters.count)
UpsertCounterRow(table, c) ==
    IF RowOf(c) \in DOMAIN table
    THEN [table EXCEPT ![RowOf(c)] = Greatest(c.Count, @)]
    ELSE table @@ (RowOf(c) :> c.Count)

\* TRUE.  TLC evaluates an argument where it is first used; naming x here
\* has it evaluated before the steps that follow are entered.
Evaluated(x) == x = x

\* upsertStmt.Exec for the rows lo..hi of a chunk, in order: the first half
\* of the rows, then the second.
RECURSIVE ExecCounterRows(_, _, _, _)
ExecCounterRows(table, chunk, lo, hi) ==
    IF Evaluated(table) /\ lo > hi THEN table
    ELSE IF lo = hi THEN UpsertCounterRow(table, chunk[lo])
    ELSE ExecCounterRows(
             ExecCounterRows(table, chunk, lo, (lo + hi) \div 2),
             chunk, (lo + hi) \div 2 + 1, hi)

\* counterCache.Add for the rows lo..hi of a chunk, in order
RECURSIVE CacheCounterRows(_, _, _, _)
CacheCounterRows(cache, chunk, lo, hi) ==
    IF Evaluated(cache) /\ lo > hi THEN cache
    ELSE IF lo = hi
    THEN IF chunk[lo].Raw \in DOMAIN cache
         THEN [cache EXCEPT ![chunk[lo].Raw] = chunk[lo].Count]
         ELSE cache @@ (chunk[lo].Raw :> chunk[lo].Count)
    ELSE CacheCounterRows(
             CacheCounterRows(cache, chunk, lo, (lo + hi) \div 2),
             chunk, (lo + hi) \div 2 + 1, hi)

\* UpsertCounters with a conflict clause that adds EXCLUDED.count to the
\* stored count, and without the counter cache
RECURSIVE UpsertCountersLoopAdditive(_, _, _, _)
UpsertCountersLoopAdditive(updates, n, fault, st) ==
    IF Len(updates) = 0 THEN [st |-> st, err |-> Nil]
    ELSE
    LET c    == updates[1]
        rest == SubSeq(updates, 2, Len(updates))
    IN  IF fault.chunk = n /\ fault.kind \in {"begin", "exec"}
        THEN [st |-> st, err |-> DBError]
        ELSE UpsertCountersLoopAdditive(rest, n, fault,
                 [table |-> IF fault.chunk = n /\ fault.kind = "commit"
                            THEN st.table
                            ELSE IF RowOf(c) \in DOMAIN st.table
                            THEN [st.table EXCEPT ![RowOf(c)] = @ + c.Count]
                            ELSE st.table @@ (RowOf(c) :> c.Count),
                  cache |-> st.cache,
                  txs   |-> st.txs])

\* A transaction a call opened: the rows of its chunk and how it ended.
Tx(chunk, fault, n) ==
    [stmts |-> chunk,
     end   |-> IF fault.chunk # n THEN "committed"
               ELSE IF fault.kind = "exec" THEN "exec failed"
               ELSE "commit failed"]

\* UpsertCounters slicing off a chunk and one row more than the chunk
RECURSIVE UpsertCountersLoopSkip(_, _, _, _)
UpsertCountersLoopSkip(updates, n, fault, st) ==
    IF Len(updates) = 0 THEN [st |-> st, err |-> Nil]
    ELSE
    LET size  == Min(Len(updates), TransactionSizeLimit)
        chunk == SubSeq(updates, 1, size)
        rest  == SubSeq(updates, size + 2, Len(updates))
    IN  IF fault.chunk = n /\ fault.kind = "begin"
        THEN [st |-> st, err |-> DBError]
        ELSE IF fault.chunk = n /\ fault.kind = "exec"
        THEN [st  |-> [st EXCEPT !.txs = Append(@, Tx(chunk, fault, n))],
              err |-> DBError]
        ELSE UpsertCountersLoopSkip(rest, n + 1, fault,
                 [table |-> IF fault.chunk = n /\ fault.kind = "commit"
                            THEN st.table
                            ELSE ExecCounterRows(st.table, chunk, 1, Len(chunk)),
                  cache |-> CacheCounterRows(st.cache, chunk, 1, Len(chunk)),
                  txs   |-> Append(st.txs, Tx(chunk, fault, n))])

\* The chunk loop of UpsertCounters.  st = [table, cache, txs], txs being
\* the transactions opened so far.  A failure to
\* begin or to execute returns at once and the open transaction is dropped
\* with the connection.  The result of tx.Commit() is discarded ('if
\* tx.Commit(); err != nil' tests the nil err of BeginTx), so a chunk whose
\* commit fails is not persisted and is still added to the cache.
RECURSIVE UpsertCountersLoop(_, _, _, _)
UpsertCountersLoop(updates, n, fault, st) ==
    IF Len(updates) = 0 THEN [st |-> st, err |-> Nil]
    ELSE
    LET size  == Min(Len(updates), TransactionSizeLimit)
        chunk == SubSeq(updates, 1, size)
        rest  == SubSeq(updates, size + 1, Len(updates))
    IN  IF fault.chunk = n /\ fault.kind = "begin"
        THEN [st |-> st, err |-> DBError]
        ELSE IF fault.chunk = n /\ fault.kind = "exec"
        THEN [st  |-> [st EXCEPT !.txs = Append(@, Tx(chunk, fault, n))],
              err |-> DBError]
        ELSE UpsertCountersLoop(rest, n + 1, fault,
                 [table |-> IF fault.chunk = n /\ fault.kind = "commit"
                            THEN st.table
                            ELSE ExecCounterRows(st.table, chunk, 1, Len(chunk)),
                  cache |-> CacheCounterRows(st.cache, chunk, 1, Len(chunk)),
                  txs   |-> Append(st.txs, Tx(chunk, fault, n))])

\* The counters that have changes: those whose count the cache does not hold.
ChangedCounters(cs, cache) ==
    SelectSeq(cs, LAMBDA c :
        ~(c.Raw \in DOMAIN cache /\ cache[c.Raw] = c.Count))

\* PGDatabase.UpsertCounters(counters) on the table and the cache st.
UpsertCounters(cs, fault, st) ==
    IF fault.kind = "conn" THEN [st |-> st, err |-> DBError]
    ELSE UpsertCountersLoop(ChangedCounters(cs, st.cache), 1, fault, st)

\* The values '1', '2', ... of the attribute 'n', which the calls with more
\* rows than one transaction takes are made of
NumberedTuples ==
    [i \in 1..(2 * TransactionSizeLimit + 1) |-> <<"n", ToString(i)>>]

NumberedSet == {NumberedTuples[i] : i \in DOMAIN NumberedTuples}

RECURSIVE PickAll(_)
PickAll(S) ==
    IF S = {} THEN <<>>
    ELSE LET x == CHOOSE y \in S : TRUE IN <<x>> \o PickAll(S \ {x})

\* The tuples of a domain map, as a list; Go's map iteration fixes no order,
\* and the order decides only which chunk a tuple falls in.  The order
\* taken here: the numbered values of 'n' ascending, then the others.
SetToSeq(S) ==
    IF S \cap NumberedSet = {} THEN PickAll(S)
    ELSE SelectSeq(NumberedTuples, LAMBDA t : t \in S)
             \o PickAll(S \ NumberedSet)

Tuples(attributes) ==
    UNION {{<<a, v>> : v \in attributes[a]} : a \in DOMAIN attributes}

\* UpsertDomain adding the chunk to the cache before it returns the error
\* of a row statement
RECURSIVE UpsertDomainLoopCacheOnFail(_, _, _, _)
UpsertDomainLoopCacheOnFail(tuples, n, fault, st) ==
    IF Len(tuples) = 0 THEN [st |-> st, err |-> Nil]
    ELSE
    LET size  == Min(Len(tuples), TransactionSizeLimit)
        chunk == SubSeq(tuples, 1, size)
        rest  == SubSeq(tuples, size + 1, Len(tuples))
    IN  IF fault.chunk = n /\ fault.kind = "begin"
        THEN [st |-> st, err |-> DBError]
        ELSE IF fault.chunk = n /\ fault.kind = "exec"
        THEN [st  |-> [st EXCEPT !.txs = Append(@, Tx(chunk, fault, n)),
                                 !.cache = @ \cup Range(chunk)],
              err |-> DBError]
        ELSE UpsertDomainLoopCacheOnFail(rest, n + 1, fault,
                 [table |-> IF fault.chunk = n /\ fault.kind = "commit"
                            THEN st.table
                            ELSE st.table \cup Range(chunk),
                  cache |-> st.cache \cup Range(chunk),
                  txs   |-> Append(st.txs, Tx(chunk, fault, n))])

\* The chunk loop of UpsertDomain.  st = [table, cache, txs]; upsertDomainSQL is
\* INSERT ... ON CONFLICT DO NOTHING.  Failures as in UpsertCountersLoop.
RECURSIVE UpsertDomainLoop(_, _, _, _)
UpsertDomainLoop(tuples, n, fault, st) ==
    IF Len(tuples) = 0 THEN [st |-> st, err |-> Nil]
    ELSE
    LET size  == Min(Len(tuples), TransactionSizeLimit)
        chunk == SubSeq(tuples, 1, size)
        rest  == SubSeq(tuples, size + 1, Len(tuples))
    IN  IF fault.chunk = n /\ fault.kind = "begin"
        THEN [st |-> st, err |-> DBError]
        ELSE IF fault.chunk = n /\ fault.kind = "exec"
        THEN [st  |-> [st EXCEPT !.txs = Append(@, Tx(chunk, fault, n))],
              err |-> DBError]
        ELSE UpsertDomainLoop(rest, n + 1, fault,
                 [table |-> IF fault.chunk = n /\ fault.kind = "commit"
                            THEN st.table
                            ELSE st.table \cup Range(chunk),
                  cache |-> st.cache \cup Range(chunk),
                  txs   |-> Append(st.txs, Tx(chunk, fault, n))])

\* PGDatabase.UpsertDomain(attributes) on the table and the cache st.
UpsertDomain(attributes, fault, st) ==
    IF fault.kind = "conn" THEN [st |-> st, err |-> DBError]
    ELSE UpsertDomainLoop(SetToSeq(Tuples(attributes) \ st.cache), 1, fault, st)

\* CollectDomain
CollectDomain(ks) ==
    LET attrs == UNION {DOMAIN ks[i].Attributes : i \in 1..Len(ks)}
    IN  [a \in attrs |->
            {ks[i].Attributes[a] :
                i \in {j \in 1..Len(ks) : a \in DOMAIN ks[j].Attributes}}]

----------------------------------------------------------------------------
(* Snapshotter.Run(now).  Each collaborator call is one step; ingress may   *)
(* interleave between the steps.                                           *)

DBState == [table |-> dbCounters, cache |-> counterCache, txs |-> <<>>]
DomainState == [table |-> dbDomain, cache |-> attrCache, txs |-> <<>>]

Call(op, err, n) == [op |-> op, err |-> err, n |-> n]

\* ListKeys, ParseKeyList, the thresholds and FilterKeys.
RunListKeys(now, fail) ==
    /\ pc = "idle"
    /\ nRuns < MaxRuns
    /\ nRuns' = nRuns + 1
    /\ UNCHANGED parseCall
    /\ added' = {}
    /\ IF fail
       THEN /\ pc' = "done"
            /\ runErr' = IOError
            /\ runLog' = <<Call("ListKeys", IOError, 0)>>
            /\ keys' = <<>>
            /\ parsed' = <<>>
            /\ invalid' = <<>>
            /\ update' = <<>>
            /\ ignore' = <<>>
            /\ delete' = <<>>
            /\ updateThreshold' = 0
            /\ deleteThreshold' = 0
       ELSE LET ks == StoreListKeys(counters)
                pl == ParseKeyList(ks)
                ut == now - UpdateThreshold
                dt == now - DeleteThreshold
                f  == FilterKeys(pl.out, ut, dt)
            IN  /\ pc' = "delete"
                /\ runErr' = Nil
                /\ runLog' = <<Call("ListKeys", Nil, Len(ks))>>
                /\ keys' = ks
                /\ parsed' = pl.out
                /\ invalid' = pl.invalid
                /\ updateThreshold' = ut
                /\ deleteThreshold' = dt
                /\ update' = f.update
                /\ ignore' = f.ignore
                /\ delete' = f.delete
    /\ UNCHANGED <<counters, nEvents, clock, dbVars>>

\* Run with the error of DeleteKeys logged and not returned
RunDeleteKeysGoOn(fail) ==
    /\ pc = "delete"
    /\ counters' = IF fail THEN counters
                   ELSE StoreDeleteKeys(counters, Keys(delete))
    /\ runLog' = Append(runLog,
           Call("DeleteKeys", IF fail THEN IOError ELSE Nil, Len(delete)))
    /\ pc' = "count"
    /\ runErr' = IF fail THEN IOError ELSE Nil
    /\ UNCHANGED <<nEvents, added, clock, keys, parsed, invalid,
                   updateThreshold, deleteThreshold, update, ignore, delete,
                   nRuns, parseCall, dbVars>>

\* s.client.DeleteKeys(ParsedList(delete).Keys())
RunDeleteKeys(fail) ==
    /\ pc = "delete"
    /\ counters' = IF fail THEN counters
                   ELSE StoreDeleteKeys(counters, Keys(delete))
    /\ runLog' = Append(runLog,
           Call("DeleteKeys", IF fail THEN IOError ELSE Nil, Len(delete)))
    /\ pc' = IF fail THEN "done" ELSE "count"
    /\ runErr' = IF fail THEN IOError ELSE Nil
    /\ UNCHANGED <<nEvents, added, clock, keys, parsed, invalid,
                   updateThreshold, deleteThreshold, update, ignore, delete,
                   nRuns, parseCall, dbVars>>

\* What a GetCounts call may answer for the keys ks: the counts, an error,
\* or a list of another length (one count missing, or one too many).
GetCountsAnswers(ks) ==
    LET cs == StoreGetCounts(counters, ks) IN
    {[counts |-> cs, err |-> Nil], [counts |-> <<>>, err |-> IOError],
     [counts |-> Append(cs, 0), err |-> Nil]} \cup
    (IF Len(cs) > 0
     THEN {[counts |-> SubSeq(cs, 1, Len(cs) - 1), err |-> Nil]} ELSE {})

\* s.client.GetCounts(ParsedList(update).Keys()), the length check and the
\* loop that stores the counts.  On a length mismatch the code returns err,
\* which is the nil error of GetCounts.
RunGetCounts(a) ==
    /\ pc = "count"
    /\ a \in GetCountsAnswers(Keys(update))
    /\ runLog' = Append(runLog, Call("GetCounts", a.err, Len(a.counts)))
    /\ IF a.err # Nil
       THEN pc' = "done" /\ runErr' = a.err /\ update' = update
       ELSE IF Len(a.counts) # Len(update)
       THEN pc' = "done" /\ runErr' = a.err /\ update' = update
       ELSE /\ pc' = "upsertCounters"
            /\ runErr' = Nil
            /\ update' = [i \in 1..Len(update) |->
                             [update[i] EXCEPT !.Count = a.counts[i]]]
    /\ UNCHANGED <<storeVars, keys, parsed, invalid, updateThreshold,
                   deleteThreshold, ignore, delete, nRuns, parseCall,
                   dbVars>>

\* s.db.UpsertCounters(update)
RunUpsertCounters(fault) ==
    /\ pc = "upsertCounters"
    /\ fault \in Faults(Len(update))
    /\ LET r == UpsertCounters(update, fault, DBState) IN
       /\ pc' = IF r.err # Nil THEN "done" ELSE "upsertDomain"
       /\ dbCounters' = r.st.table
       /\ counterCache' = r.st.cache
       /\ dbLast' = [op |-> "UpsertCounters", rows |-> update, err |-> r.err]
       /\ runLog' = Append(runLog, Call("UpsertCounters", r.err, Len(update)))
       /\ runErr' = r.err
    /\ UNCHANGED <<storeVars, keys, parsed, invalid, updateThreshold,
                   deleteThreshold, update, ignore, delete, nRuns,
                   parseCall, dbDomain, attrCache, dbPrev, dbTxs, uncached,
                   nCalls>>

\* Run collecting the domain of every parsed key
RunUpsertDomainAllKeys(fault) ==
    /\ pc = "upsertDomain"
    /\ LET attributes == CollectDomain(parsed)
           r == UpsertDomain(attributes, fault, DomainState)
       IN  /\ fault \in Faults(Cardinality(Tuples(attributes)))
           /\ dbDomain' = r.st.table
           /\ attrCache' = r.st.cache
           /\ dbLast' = [op |-> "UpsertDomain",
                         rows |-> SetToSeq(Tuples(attributes)), err |-> r.err]
           /\ runLog' = Append(runLog,
                  Call("UpsertDomain", r.err, Cardinality(Tuples(attributes))))
           /\ runErr' = r.err
           /\ pc' = "done"
    /\ UNCHANGED <<storeVars, keys, parsed, invalid, updateThreshold,
                   deleteThreshold, update, ignore, delete, nRuns,
                   parseCall, dbCounters,
                   counterCache, dbPrev, dbTxs, uncached, nCalls>>

\* CollectDomain(update) and s.db.UpsertDomain(attributes)
RunUpsertDomain(fault) ==
    /\ pc = "upsertDomain"
    /\ LET attributes == CollectDomain(update)
           r == UpsertDomain(attributes, fault, DomainState)
       IN  /\ fault \in Faults(Cardinality(Tuples(attributes)))
           /\ pc' = "done"
           /\ dbDomain' = r.st.table
           /\ attrCache' = r.st.cache
           /\ dbLast' = [op |-> "UpsertDomain",
                         rows |-> SetToSeq(Tuples(attributes)), err |-> r.err]
           /\ runLog' = Append(runLog,
                  Call("UpsertDomain", r.err, Cardinality(Tuples(attributes))))
           /\ runErr' = r.err
    /\ UNCHANGED <<storeVars, keys, parsed, invalid, updateThreshold,
                   deleteThreshold, update, ignore, delete, nRuns,
                   parseCall, dbCounters, counterCache, dbPrev, dbTxs,
                   uncached, nCalls>>

\* Run has returned runErr; its locals go out of scope.
RunReturn ==
    /\ pc = "done"
    /\ pc' = "idle"
    /\ keys' = <<>>
    /\ parsed' = <<>>
    /\ invalid' = <<>>
    /\ update' = <<>>
    /\ ignore' = <<>>
    /\ delete' = <<>>
    /\ updateThreshold' = 0
    /\ deleteThreshold' = 0
    /\ runErr' = Nil
    /\ runLog' = <<>>
    /\ added' = {}
    /\ UNCHANGED <<counters, nEvents, clock, nRuns, parseCall, dbVars>>

----------------------------------------------------------------------------
(* The ingress API: IngressRequest, Validate, Filter, DateIntervals,        *)
(* RequestCounterKeys.  An attribute key or value, which may hold ':', is   *)
(* the sequence of its ':'-separated segments, as a raw key is: "foo" is    *)
(* <<"foo">>, "a:b" is <<"a", "b">> and "" is <<"">>.  Joining strings     *)
(* with ':' is concatenating their segments.                               *)

NullAttribute == <<"null">>

\* strings.Contains(s, KeySeperator)
ContainsSeperator(s) == Len(s) > 1

\* The zero time.Time, 0001-01-01T00:00:00Z: 736329 days before day 0.
ZeroTime == 0 - 736329 * Day
IsZero(d) == d.t = ZeroTime

\* The attribute keys of the model, in the order sort.Strings gives them.
AttrOrder == << <<"a", "b">>, <<"baz">>, <<"foo">>, <<"null">>, <<"zoo">> >>

NoEvent == [ID |-> "", Date |-> InUTC(ZeroTime), Attributes |-> <<>>]

\* Validate without the check for ':'
ValidateNoColonCheck(r, now) ==
    IF r.ID = ""
    THEN [req |-> r, err |-> Errorf("missing request ID", "")]
    ELSE
    LET dated == IF IsZero(r.Date) THEN [r EXCEPT !.Date = InUTC(now)]
                 ELSE r IN
    IF Cardinality(DOMAIN r.Attributes) = 0
    THEN [req |-> [dated EXCEPT
                      !.Attributes = (NullAttribute :> NullAttribute)],
          err |-> Nil]
    ELSE [req |-> dated, err |-> Nil]

\* Validate without the injection of the null attribute
ValidateNoSentinel(r, now) ==
    IF r.ID = ""
    THEN [req |-> r, err |-> Errorf("missing request ID", "")]
    ELSE
    LET dated == IF IsZero(r.Date) THEN [r EXCEPT !.Date = InUTC(now)]
                 ELSE r IN
    IF \E k \in DOMAIN r.Attributes :
           ContainsSeperator(k) \/ ContainsSeperator(r.Attributes[k])
    THEN [req |-> dated,
          err |-> Errorf("invalid use of colon in attribute key/value", "")]
    ELSE [req |-> dated, err |-> Nil]

\* IngressRequest.Validate when time.Now().UTC() is now: the request as
\* Validate leaves it, and the error returned.
Validate(r, now) ==
    IF r.ID = ""
    THEN [req |-> r, err |-> Errorf("missing request ID", "")]
    ELSE
    LET dated == IF IsZero(r.Date) THEN [r EXCEPT !.Date = InUTC(now)]
                 ELSE r IN
    IF Cardinality(DOMAIN r.Attributes) = 0
    THEN [req |-> [dated EXCEPT
                      !.Attributes = (NullAttribute :> NullAttribute)],
          err |-> Nil]
    ELSE IF \E k \in DOMAIN r.Attributes :
                ContainsSeperator(k) \/ ContainsSeperator(r.Attributes[k])
    THEN [req |-> dated,
          err |-> Errorf("invalid use of colon in attribute key/value", "")]
    ELSE [req |-> dated, err |-> Nil]

\* A request body: bytes that do not decode as the JSON of an event, or the
\* event they decode to.
BadJSON == [json |-> FALSE, req |-> NoEvent]
JSON(r) == [json |-> TRUE, req |-> r]

\* ParseIngressRequest(body) at the time now
ParseIngressRequest(body, now) ==
    IF ~body.json
    THEN [req |-> NoEvent, err |-> Errorf("failed to parse", "")]
    ELSE Validate(body.req, now)

\* Restriction of the mapping f to the keys in S.
Restrict(f, S) == [k \in DOMAIN f \cap S |-> f[k]]

\* IngressRequest.Filter kept as the identity
FilterNothing(attributes, config) == attributes

\* IngressRequest.Filter(config) on the attributes of a request: the
\* whitelist first, then the blacklist, then the sentinel when nothing is
\* left.
Filter(attributes, config) ==
    LET white == IF Len(config.Whitelist) > 0
                 THEN Restrict(attributes,
                          {config.Whitelist[i] : i \in 1..Len(config.Whitelist)})
                 ELSE attributes
        black == IF Len(config.Blacklist) > 0
                 THEN Restrict(white, DOMAIN white \
                          {config.Blacklist[i] : i \in 1..Len(config.Blacklist)})
                 ELSE white
    IN  IF Cardinality(DOMAIN black) = 0
        THEN (NullAttribute :> NullAttribute)
        ELSE black

DayInterval   == "day"
WeekInterval  == "week"
MonthInterval == "month"
AllIntervals  == {DayInterval, WeekInterval, MonthInterval}

\* DateIntervals(intervals, date): the mask is the set of intervals whose
\* bit is set.
DateIntervals(mask, date) ==
    [i \in mask |->
        CASE i = DayInterval   -> Format(date, DayLayout)
          [] i = WeekInterval  ->
                 Format(Add(date, 0 - Day * WeekdayOf(date)), DayLayout)
          [] i = MonthInterval -> Format(date, MonthLayout)]

\* sort.Strings on attribute keys
SortAttrs(ks) == SelectSeq(AttrOrder, LAMBDA k : k \in Range(ks))

\* The suffix "k1:v1:k2:v2..." of the keys ks in the order given; the
\* empty string when there is none.
RECURSIVE JoinPairs(_, _)
JoinPairs(ks, attributes) ==
    IF Len(ks) = 0 THEN <<>>
    ELSE ks[1] \o attributes[ks[1]] \o JoinPairs(Tail(ks), attributes)

Suffix(ks, attributes) ==
    IF Len(ks) = 0 THEN <<"">> ELSE JoinPairs(ks, attributes)

\* The second loop of RequestCounterKeys: one key per interval, in the
\* order 'range' goes through the intervals.
KeysPerInterval(labels, suffix, intervalIter) ==
    [n \in 1..Len(intervalIter) |->
        <<intervalIter[n], labels[intervalIter[n]]>> \o suffix]

\* RequestCounterKeys with the attribute keys left in the order the map
\* gave them
RequestCounterKeysUnsorted(labels, r, attrIter, intervalIter) ==
    KeysPerInterval(labels, Suffix(attrIter, r.Attributes), intervalIter)

\* RequestCounterKeys(intervals, r).  attrIter and intervalIter are the
\* orders in which 'range' goes through r.Attributes and intervals, which Go
\* leaves open.
RequestCounterKeys(labels, r, attrIter, intervalIter) ==
    KeysPerInterval(labels, Suffix(SortAttrs(attrIter), r.Attributes),
                    intervalIter)

\* The orders in which a set can be gone through.
Orders(S) ==
    {q \in [1..Cardinality(S) -> S] : \A x \in S : \E i \in DOMAIN q : q[i] = x}

----------------------------------------------------------------------------
(* The HTTP handler: NewHTTPHandler's auth wrapper and APIHandler.Ingress.  *)
(* An Authorization header is the sequence of the pieces it is made of,     *)
(* <<"Bearer ", "2345">> for "Bearer 2345", and <<>> when it is absent.    *)

BearerPrefix == "Bearer "

\* strings.HasPrefix(authHeader, prefix)
HasPrefix(header, prefix) == Len(header) >= 1 /\ header[1] = prefix

\* authHeader[len(prefix):]
TrimPrefix(header) == IF Len(header) >= 2 THEN header[2] ELSE ""

\* subtle.ConstantTimeCompare(t, token) == 1
ConstantTimeCompare(t, token) == t = token

\* The wrapper that lets a request with any Bearer header through
EnforceAnyBearer(auth, header) ==
    ~auth.Required \/ HasPrefix(header, BearerPrefix)

\* Whether the wrapper 'enforce' routes the request to the muxer; without
\* auth.Required the muxer is the handler itself.
Enforce(auth, header) ==
    IF ~auth.Required THEN TRUE
    ELSE IF header = <<>> THEN FALSE
    ELSE IF ~HasPrefix(header, BearerPrefix) THEN FALSE
    ELSE \E i \in 1..Len(auth.Tokens) :
             ConstantTimeCompare(auth.Tokens[i], TrimPrefix(header))

NoRequest == [Method |-> "", Header |-> <<>>, Body |-> BadJSON]
NoCall == [called |-> FALSE, keys |-> <<>>, id |-> "", err |-> Nil]

\* What the handler answers and leaves behind when it returns before the
\* keys are derived.
Answer(req, code, ev) ==
    /\ request' = req
    /\ status' = code
    /\ event' = ev
    /\ intervals' = <<>>
    /\ reqKeys' = <<>>
    /\ updateCall' = NoCall
    /\ counters' = counters

\* Ingress with a failure of UpdateKeys answered 500
IngressUpdate500(req, ev, labels, ks, fail) ==
    /\ request' = req
    /\ status' = IF fail THEN 500 ELSE 200
    /\ event' = ev
    /\ intervals' = labels
    /\ reqKeys' = ks
    /\ updateCall' = [called |-> TRUE, keys |-> ks, id |-> ev.ID,
                      err |-> IF fail THEN IOError ELSE Nil]
    /\ counters' = IF fail THEN counters
                   ELSE StoreUpdateKeys(counters, ks, ev.ID)

\* The end of Ingress: a.client.UpdateKeys(keys, req.ID), whose error is
\* logged only, and the answer 200 of a handler that wrote no status.
IngressUpdate(req, ev, labels, ks, fail) ==
    /\ request' = req
    /\ status' = 200
    /\ event' = ev
    /\ intervals' = labels
    /\ reqKeys' = ks
    /\ updateCall' = [called |-> TRUE, keys |-> ks, id |-> ev.ID,
                      err |-> IF fail THEN IOError ELSE Nil]
    /\ counters' = IF fail THEN counters
                   ELSE StoreUpdateKeys(counters, ks, ev.ID)

\* keys := RequestCounterKeys(intervals, req)
IngressKeys(req, ev, labels, fail) ==
    \E attrIter \in Orders(DOMAIN ev.Attributes),
       intervalIter \in Orders(DOMAIN labels) :
        IngressUpdate(req, ev, labels,
            RequestCounterKeys(labels, ev, attrIter, intervalIter), fail)

\* Ingress with the mask DayInterval|WeekInterval
IngressIntervalsNoMonth(req, ev, fail) ==
    IngressKeys(req, ev,
        DateIntervals({DayInterval, WeekInterval}, ev.Date), fail)

\* intervals := DateIntervals(DayInterval|WeekInterval|MonthInterval,
\* req.Date)
IngressIntervals(req, ev, fail) ==
    IngressKeys(req, ev, DateIntervals(AllIntervals, ev.Date), fail)

\* Ingress without the check of the method
IngressAnyMethod(req, fail) ==
    LET p == ParseIngressRequest(req.Body, Instant(clock)) IN
    IF p.err # Nil THEN Answer(req, 400, NoEvent)
    ELSE IngressIntervals(req,
             [p.req EXCEPT !.Attributes = Filter(@, attrConfig)], fail)

\* APIHandler.Ingress(w, r)
IngressHandler(req, fail) ==
    LET p == ParseIngressRequest(req.Body, Instant(clock)) IN
    IF req.Method # "PUT" THEN Answer(req, 405, NoEvent)
    ELSE IF p.err # Nil THEN Answer(req, 400, NoEvent)
    ELSE IngressIntervals(req,
             [p.req EXCEPT !.Attributes = Filter(@, attrConfig)], fail)

\* The handler NewHTTPHandler returns, serving a request to /v1/ingress;
\* fail: UpdateKeys, if called, returns an error.
ServeHTTP(req, fail) ==
    /\ nReqs < MaxReqs
    /\ nReqs' = nReqs + 1
    /\ IF Enforce(authConfig, req.Header)
       THEN IngressHandler(req, fail)
       ELSE Answer(req, 403, NoEvent)
    /\ UNCHANGED <<nEvents, added, clock, runVars, dbVars, cronVars,
                   authConfig, attrConfig, redisVars>>

----------------------------------------------------------------------------
(* The pooled client: PooledClient against a Redis server.  A name of the  *)
(* keyspace is the sequence of its ':'-separated segments, as a raw key    *)
(* is: "counterd:foo" is <<"counterd", "foo">>.  The server executes one   *)
(* command, or the queued commands of one MULTI ... EXEC, at a time; the   *)
(* commands of different connections interleave.                           *)

\* RedisKeyPrefix = "counterd:", so that RedisKeyPrefix+key is Prefixed(key).
RedisKeyPrefix == <<"counterd">>

Prefixed(key) == RedisKeyPrefix \o key

\* MATCH RedisKeyPrefix+"*"
Match(name) ==
    /\ Len(name) > Len(RedisKeyPrefix)
    /\ SubSeq(name, 1, Len(RedisKeyPrefix)) = RedisKeyPrefix

\* The keys of TestRedisInteg the calls are made with.
TestKeys == {<<"bar">>, <<"foo">>}

\* The names the keyspace may hold, in the order sort.Strings gives them:
\* the keys under the namespace and a name of another user of the server.
NameOrder == << <<"counterd", "bar">>, <<"counterd", "foo">>, <<"foo">> >>

Names == Range(NameOrder)

SortNames(S) == SelectSeq(NameOrder, LAMBDA n : n \in S)

\* PFADD name id
PFAdd(db, name, id) ==
    [n \in DOMAIN db \cup {name} |->
        IF n = name
        THEN (IF name \in DOMAIN db THEN db[name] ELSE {}) \cup {id}
        ELSE db[n]]

\* PFCOUNT name
PFCount(db, name) == IF name \in DOMAIN db THEN Cardinality(db[name]) ELSE 0

\* DEL name [name ...]
Del(db, names) == [n \in DOMAIN db \ Range(names) |-> db[n]]

\* DEL without a name: the server answers with an error.
ArityError == Errorf("ERR wrong number of arguments", "del")

\* The PFADD commands UpdateKeys sends.
UpdateCommands(ks, id) ==
    [i \in 1..Len(ks) |-> [cmd |-> "PFADD", name |-> Prefixed(ks[i]), id |-> id]]

\* The commands sent one by one, without MULTI and EXEC: the server may
\* execute the commands of other connections between any two of them
Pipelined(cmds) ==
    IF cmds = <<>> THEN <<cmds>> ELSE [i \in 1..Len(cmds) |-> <<cmds[i]>>]

\* c.Send("MULTI"), the commands, c.Do("EXEC"): the units the server
\* executes the commands in.  EXEC runs all the queued commands as one.
Transaction(cmds) == <<cmds>>

RECURSIVE ExecUnit(_, _, _)
ExecUnit(db, unit, i) ==
    IF i > Len(unit) THEN db
    ELSE ExecUnit(PFAdd(db, unit[i].name, unit[i].id), unit, i + 1)

\* What was written on the connection.
Sent(first, cmd, n, last) == first \o [i \in 1..n |-> cmd] \o last

NoUpdate == [active |-> FALSE, keys |-> <<>>, id |-> "", units |-> <<>>,
             done |-> {}, created |-> {}]
\* quiet: the keyspace has not changed since the first SCAN; during: an
\* UpdateKeys call was executed since the first SCAN.
NoScan == [active |-> FALSE, todo |-> {}, keyMap |-> {}, quiet |-> TRUE,
           during |-> FALSE]
NoReply == [n |-> 0, op |-> "none", keys |-> <<>>, res |-> <<>>, err |-> Nil,
            cmds |-> <<>>, down |-> FALSE]

\* The n-th call to return: what it was, what it sent and what it returned.
Reply(op, ks, res, err, cmds, down) ==
    [n |-> reply.n + 1, op |-> op, keys |-> ks, res |-> res, err |-> err,
     cmds |-> cmds, down |-> down]

\* What a ListKeys in flight is told of a change of the keyspace.
Disturbed(changed, updated) ==
    IF scan.active
    THEN [scan EXCEPT !.quiet = @ /\ ~changed, !.during = @ \/ updated]
    ELSE scan

\* PooledClient.UpdateKeys(keys, id) up to the moment EXEC is sent: the
\* commands are buffered by Send.  On a connection that is down, Do
\* returns the error and the server has received nothing.
PooledUpdateKeys(ks, id, down) ==
    /\ ~upd.active
    /\ nOps < MaxOps
    /\ nOps' = nOps + 1
    /\ IF down
       THEN /\ reply' = Reply("UpdateKeys", ks, <<>>, IOError, <<>>, TRUE)
            /\ upd' = upd
       ELSE /\ upd' = [active |-> TRUE, keys |-> ks, id |-> id,
                       units |-> Transaction(UpdateCommands(ks, id)),
                       done |-> {}, created |-> {}]
            /\ reply' = reply
    /\ UNCHANGED <<redis, scan, pairs>>

\* The server executes the next unit of the UpdateKeys call in flight;
\* after the last one Do returns and UpdateKeys returns nil.
PooledUpdateExec ==
    /\ upd.active
    /\ LET unit  == upd.units[1]
           names == {unit[i].name : i \in 1..Len(unit)}
           rest  == SubSeq(upd.units, 2, Len(upd.units))
       IN  /\ redis' = ExecUnit(redis, unit, 1)
           /\ upd' = [upd EXCEPT !.active = rest # <<>>,
                                 !.units = rest,
                                 !.done = @ \cup names,
                                 !.created = @ \cup (names \ DOMAIN redis)]
           /\ scan' = Disturbed(redis' # redis, TRUE)
           /\ IF rest = <<>>
              THEN /\ reply' = Reply("UpdateKeys", upd.keys, <<>>, Nil,
                                     Sent(<<"MULTI">>, "PFADD", Len(upd.keys),
                                          <<"EXEC">>), FALSE)
                   /\ pairs' = pairs \cup
                         {<<upd.keys[i], upd.id>> : i \in 1..Len(upd.keys)}
              ELSE UNCHANGED <<reply, pairs>>
    /\ UNCHANGED nOps

\* PooledClient.GetCounts(keys): MULTI, one PFCOUNT for each key, EXEC; the
\* result maps each key to the reply of its PFCOUNT.
PooledGetCounts(ks, down) ==
    /\ nOps < MaxOps
    /\ nOps' = nOps + 1
    /\ reply' =
          IF down THEN Reply("GetCounts", ks, <<>>, IOError, <<>>, TRUE)
          ELSE Reply("GetCounts", ks,
                     [k \in Range(ks) |-> PFCount(redis, Prefixed(k))], Nil,
                     Sent(<<"MULTI">>, "PFCOUNT", Len(ks), <<"EXEC">>), FALSE)
    /\ UNCHANGED <<redis, upd, scan, pairs>>

\* DeleteKeys adding RedisKeyPrefix to each name it is given
PooledDelPrefixed(db, ks) == Del(db, [i \in 1..Len(ks) |-> Prefixed(ks[i])])

\* The DEL of PooledClient.DeleteKeys: intList[idx] = key, the names as
\* they are given.
PooledDel(db, ks) == Del(db, ks)

\* PooledClient.DeleteKeys(keys): one DEL with the names as arguments.
PooledDeleteKeys(ks, down) ==
    /\ nOps < MaxOps
    /\ nOps' = nOps + 1
    /\ IF down
       THEN /\ reply' = Reply("DeleteKeys", ks, <<>>, IOError, <<>>, TRUE)
            /\ UNCHANGED <<redis, scan>>
       ELSE IF ks = <<>>
       THEN /\ reply' = Reply("DeleteKeys", ks, <<>>, ArityError, <<"DEL">>,
                              FALSE)
            /\ UNCHANGED <<redis, scan>>
       ELSE /\ reply' = Reply("DeleteKeys", ks, <<>>, Nil, <<"DEL">>, FALSE)
            /\ redis' = PooledDel(redis, ks)
            /\ scan' = Disturbed(redis' # redis, FALSE)
    /\ UNCHANGED <<upd, pairs>>

\* PooledClient.ListKeys, one SCAN at a time.  The cursor stands for the
\* names the iteration has still to visit (todo); COUNT is a hint, and a
\* SCAN visits any number of them (visit) and may visit again names it has
\* been over (again).  The reply holds the names visited that the keyspace
\* holds and that match; with cursor 0 in the reply the loop ends and the
\* names collected are returned sorted.
PooledListKeys(visit, again, down) ==
    /\ scan.active \/ nOps < MaxOps
    /\ nOps' = IF scan.active THEN nOps ELSE nOps + 1
    /\ LET cur == IF scan.active THEN scan
                  ELSE [active |-> TRUE, todo |-> Names, keyMap |-> {},
                        quiet |-> TRUE, during |-> FALSE]
           got == {n \in visit \cup again : n \in DOMAIN redis /\ Match(n)}
           keyMap == cur.keyMap \cup got
           todo == cur.todo \ visit
       IN  /\ visit # {}
           /\ visit \subseteq cur.todo
           /\ again \subseteq Names \ cur.todo
           /\ IF down
              THEN /\ reply' = Reply("ListKeys", <<>>, <<>>, IOError, <<>>, TRUE)
                   /\ scan' = [cur EXCEPT !.active = FALSE]
              ELSE IF todo = {}
              THEN /\ reply' = Reply("ListKeys", <<>>, SortNames(keyMap), Nil,
                                     <<"SCAN">>, FALSE)
                   /\ scan' = [cur EXCEPT !.active = FALSE, !.todo = todo,
                                          !.keyMap = keyMap]
              ELSE /\ reply' = reply
                   /\ scan' = [cur EXCEPT !.todo = todo, !.keyMap = keyMap]
    /\ UNCHANGED <<redis, upd, pairs>>

InitRedis ==
    /\ redis = <<>>
    /\ upd = NoUpdate
    /\ scan = NoScan
    /\ reply = NoReply
    /\ pairs = {}
    /\ nOps = 0

----------------------------------------------------------------------------
(* Spec: ingress, the clock and snapshot runs against the two stores *)

InitStore == counters = <<>> /\ nEvents = 0 /\ added = {} /\ clock = 1

InitRun ==
    /\ pc = "idle"
    /\ keys = <<>>
    /\ parsed = <<>>
    /\ invalid = <<>>
    /\ updateThreshold = 0
    /\ deleteThreshold = 0
    /\ update = <<>>
    /\ ignore = <<>>
    /\ delete = <<>>
    /\ runErr = Nil
    /\ runLog = <<>>
    /\ nRuns = 0
    /\ parseCall = NoParse

InitDB ==
    /\ dbCounters = <<>>
    /\ dbDomain = {}
    /\ attrCache = {}
    /\ counterCache = <<>>
    /\ dbLast = [op |-> "none", rows |-> <<>>, err |-> Nil]
    /\ dbPrev = [op |-> "none", rows |-> <<>>, err |-> Nil]
    /\ dbTxs = [work |-> <<>>, txs |-> <<>>]
    /\ uncached = [counters |-> <<>>, domain |-> {}]
    /\ nCalls = 0

InitCron ==
    /\ jobs = [j \in 1..MaxJobs |-> "idle"]
    /\ snapshotLock = 0
    /\ contended = {}
    /\ nFires = 0

\* No request served yet; DefaultConfig: no auth, no attribute lists.
InitHandler ==
    /\ request = NoRequest
    /\ status = 0
    /\ event = NoEvent
    /\ intervals = <<>>
    /\ reqKeys = <<>>
    /\ updateCall = NoCall
    /\ nReqs = 0

DefaultAuth == [Required |-> FALSE, Tokens |-> <<>>]
DefaultAttributes == [Whitelist |-> <<>>, Blacklist |-> <<>>]

InitAPI ==
    /\ authConfig = DefaultAuth
    /\ attrConfig = DefaultAttributes
    /\ InitHandler

Init == InitStore /\ InitRun /\ InitDB /\ InitCron /\ InitAPI /\ InitRedis

Ingress ==
    \E ks \in Batches, id \in Ids, fail \in BOOLEAN : UpdateKeys(ks, id, fail)

Next ==
    \/ Ingress /\ UNCHANGED <<cronVars, apiVars, redisVars>>
    \/ Tick /\ UNCHANGED <<cronVars, apiVars, redisVars>>
    \/ (\E fail \in BOOLEAN : RunListKeys(Instant(clock), fail))
           /\ UNCHANGED <<cronVars, apiVars, redisVars>>
    \/ (\E fail \in BOOLEAN : RunDeleteKeys(fail)) /\ UNCHANGED <<cronVars, apiVars, redisVars>>
    \/ (\E a \in GetCountsAnswers(Keys(update)) : RunGetCounts(a))
           /\ UNCHANGED <<cronVars, apiVars, redisVars>>
    \/ (\E fault \in Faults(Len(update)) : RunUpsertCounters(fault))
           /\ UNCHANGED <<cronVars, apiVars, redisVars>>
    \/ (\E fault \in Faults(Cardinality(Tuples(CollectDomain(update)))) :
           RunUpsertDomain(fault)) /\ UNCHANGED <<cronVars, apiVars, redisVars>>
    \/ RunReturn /\ UNCHANGED <<cronVars, apiVars, redisVars>>

Spec == Init /\ [][Next]_vars

----------------------------------------------------------------------------
(* SpecCounts: ingress and snapshot runs at a time when two of the keys    *)
(* fall in the update partition.                                           *)

\* 2017-01-04T12:00:00Z: the keys of 2017-01-10 and of 2017-01-18 are not
\* yet over, the key of 2017-01-01 is over and is not yet to be deleted.
EarlyRunTime == RunTime - 14 * 24 * Hour

NextCounts ==
    \/ Ingress /\ UNCHANGED <<cronVars, apiVars, redisVars>>
    \/ (\E fail \in BOOLEAN : RunListKeys(EarlyRunTime, fail))
           /\ UNCHANGED <<cronVars, apiVars, redisVars>>
    \/ (\E fail \in BOOLEAN : RunDeleteKeys(fail)) /\ UNCHANGED <<cronVars, apiVars, redisVars>>
    \/ (\E a \in GetCountsAnswers(Keys(update)) : RunGetCounts(a))
           /\ UNCHANGED <<cronVars, apiVars, redisVars>>
    \/ (\E fault \in Faults(Len(update)) : RunUpsertCounters(fault))
           /\ UNCHANGED <<cronVars, apiVars, redisVars>>
    \/ (\E fault \in Faults(Cardinality(Tuples(CollectDomain(update)))) :
           RunUpsertDomain(fault)) /\ UNCHANGED <<cronVars, apiVars, redisVars>>
    \/ RunReturn /\ UNCHANGED <<cronVars, apiVars, redisVars>>

SpecCounts == Init /\ [][NextCounts]_vars

----------------------------------------------------------------------------
(* SpecRedis: calls of the pooled client, as TestRedisInteg and the        *)
(* snapshotter make them, from any number of goroutines.                   *)

\* The key lists of the calls: none, one or both of the keys.
KeyArgs == {<<>>} \cup {<<k>> : k \in TestKeys} \cup {<<<<"bar">>, <<"foo">>>>}

\* The names under the namespace, and the lists ListKeys may return.
Namespace == {n \in Names : Match(n)}
Listings == {SortNames(S) : S \in SUBSET Namespace}

\* DeleteKeys is called with the keys of the test or with names that come
\* from a ListKeys.
DeleteArgs == KeyArgs \cup Listings

\* The names a SCAN goes over again: none or one.
Revisits == {{}} \cup {{n} : n \in Names}

\* The server is shared: another user's name may be in the keyspace.
InitRedisSpec ==
    /\ InitStore /\ InitRun /\ InitDB /\ InitCron /\ InitAPI
    /\ redis \in {<<>>, [n \in {<<"foo">>} |-> {}]}
    /\ upd = NoUpdate
    /\ scan = NoScan
    /\ reply = NoReply
    /\ pairs = {}
    /\ nOps = 0

NextRedis ==
    \/ (\E ks \in KeyArgs, id \in Ids, down \in BOOLEAN :
            PooledUpdateKeys(ks, id, down))
           /\ UNCHANGED <<storeVars, runVars, dbVars, cronVars, apiVars>>
    \/ PooledUpdateExec
           /\ UNCHANGED <<storeVars, runVars, dbVars, cronVars, apiVars>>
    \/ (\E ks \in KeyArgs, down \in BOOLEAN : PooledGetCounts(ks, down))
           /\ UNCHANGED <<storeVars, runVars, dbVars, cronVars, apiVars>>
    \/ (\E ks \in DeleteArgs, down \in BOOLEAN : PooledDeleteKeys(ks, down))
           /\ UNCHANGED <<storeVars, runVars, dbVars, cronVars, apiVars>>
    \/ (\E visit \in SUBSET Names, again \in Revisits, down \in BOOLEAN :
            PooledListKeys(visit, again, down))
           /\ UNCHANGED <<storeVars, runVars, dbVars, cronVars, apiVars>>

SpecRedis == InitRedisSpec /\ [][NextRedis]_vars

----------------------------------------------------------------------------
(* SpecUpdates: UpdateKeys calls against the store of MockRedisClient, in  *)
(* any order.                                                              *)

\* An UpdateKeys call, and the pairs it has added once it has returned nil.
UpdateKeysCall(ks, id, fail) ==
    /\ UpdateKeys(ks, id, fail)
    /\ pairs' = IF fail THEN pairs
                ELSE pairs \cup {<<ks[i], id>> : i \in 1..Len(ks)}
    /\ UNCHANGED <<cronVars, apiVars, redis, upd, scan, reply, nOps>>

\* The key lists of the calls: those of the ingress handler, and any two
\* keys in either order, the same key twice included.
UpdateBatches == Batches \cup {<<a, b>> : a, b \in RawKeys}

NextUpdates ==
    \E ks \in UpdateBatches, id \in Ids, fail \in BOOLEAN :
        UpdateKeysCall(ks, id, fail)

SpecUpdates == Init /\ [][NextUpdates]_vars

----------------------------------------------------------------------------
(* SpecFilter: FilterKeys as a function of its arguments *)

\* The keys FilterKeys is applied to: one of each interval.
FilterRaw == {
    <<"day", "2017-01-18", "foo", "bar">>,
    <<"week", "2017-01-15", "foo", "bar">>,
    <<"month", "2017-01", "foo", "bar">> }

FilterParsed == {ParseKey(r).key : r \in FilterRaw}

\* Thresholds at, one hour before and one hour after each key's date and
\* each key's date plus its interval.
ThresholdTimes ==
    {k.Date + d + e : k \in FilterParsed,
                      d \in {0, 24 * Hour, 7 * 24 * Hour, 31 * 24 * Hour},
                      e \in {0 - Hour, 0, Hour}}

ListsOver(S) == UNION {[1..n -> S] : n \in 0..MaxLen}

InitFilter ==
    /\ InitStore /\ InitDB /\ InitCron /\ InitAPI /\ InitRedis
    /\ pc = "filter"
    /\ keys = <<>>
    /\ parsed \in ListsOver(FilterParsed)
    /\ invalid = <<>>
    /\ updateThreshold \in ThresholdTimes
    /\ deleteThreshold \in ThresholdTimes
    /\ update = <<>>
    /\ ignore = <<>>
    /\ delete = <<>>
    /\ runErr = Nil
    /\ runLog = <<>>
    /\ nRuns = 0
    /\ parseCall = NoParse

ApplyFilterKeys ==
    /\ pc = "filter"
    /\ LET f == FilterKeys(parsed, updateThreshold, deleteThreshold) IN
       /\ update' = f.update
       /\ ignore' = f.ignore
       /\ delete' = f.delete
    /\ pc' = "filtered"
    /\ UNCHANGED <<storeVars, keys, parsed, invalid, updateThreshold,
                   deleteThreshold, runErr, runLog, nRuns, parseCall, dbVars,
                   cronVars, apiVars, redisVars>>

NextFilter == ApplyFilterKeys

SpecFilter == InitFilter /\ [][NextFilter]_vars

----------------------------------------------------------------------------
(* SpecParse: ParseKeyList as a function of its argument, in the place Run  *)
(* calls it: on the list ListKeys returned, before FilterKeys.             *)

\* The strings ParseKeyList is applied to: the two valid keys and the
\* invalid 'month' of TestParseKeyList, and a key of an unknown interval.
ParseRaw == {
    <<"day", "2017-01-18", "foo", "bar">>,
    <<"week", "2017-01-15", "foo", "bar", "zip", "zap">>,
    <<"month">>,
    <<"year", "2017", "foo", "bar">> }

KeyLists == UNION {[1..n -> ParseRaw] : n \in 0..(MaxLen + 1)}

\* ListKeys has returned keys.
InitParse ==
    /\ InitStore /\ InitDB /\ InitCron /\ InitAPI /\ InitRedis
    /\ pc = "listed"
    /\ keys \in KeyLists
    /\ parsed = <<>>
    /\ invalid = <<>>
    /\ updateThreshold = 0
    /\ deleteThreshold = 0
    /\ update = <<>>
    /\ ignore = <<>>
    /\ delete = <<>>
    /\ runErr = Nil
    /\ runLog = <<Call("ListKeys", Nil, Len(keys))>>
    /\ nRuns = 1
    /\ parseCall = NoParse

\* Run(now) from the return of ListKeys to the call of DeleteKeys:
\* ParseKeyList, the warning for each invalid key, the thresholds and
\* FilterKeys.
RunParseKeys(now) ==
    /\ pc = "listed"
    /\ LET pl == ParseKeyList(keys)
           ut == now - UpdateThreshold
           dt == now - DeleteThreshold
           f  == FilterKeys(pl.out, ut, dt)
       IN  /\ parsed' = pl.out
           /\ invalid' = pl.invalid
           /\ updateThreshold' = ut
           /\ deleteThreshold' = dt
           /\ update' = f.update
           /\ ignore' = f.ignore
           /\ delete' = f.delete
    /\ pc' = "delete"
    /\ UNCHANGED <<storeVars, keys, runErr, runLog, nRuns, parseCall, dbVars, cronVars,
                   apiVars, redisVars>>

NextParse == RunParseKeys(Instant(clock))

SpecParse == InitParse /\ [][NextParse]_vars

----------------------------------------------------------------------------
(* SpecDB: any sequence of calls of the DatabaseClient, as the tests make   *)
(* them.  Run reaches the tables through the same two operations only      *)
(* (RunUpsertCounters, RunUpsertDomain), so what holds of every sequence   *)
(* of calls holds of the calls a sequence of runs makes.                   *)

\* The keys of the direct calls: the two 'foo' counters of the tests.
DBKeys == <<ParseKey(StringOrder[2]).key, ParseKey(StringOrder[3]).key>>

WithCount(k, c) == [k EXCEPT !.Count = c]

\* The lists a direct UpsertCounters call carries: each key at most once
\* (-1: left out), with any count up to MaxCount.
ListOf(ch) ==
    SelectSeq([i \in 1..Len(DBKeys) |-> WithCount(DBKeys[i], ch[i])],
              LAMBDA c : c.Count >= 0)

CounterLists ==
    {ListOf(ch) : ch \in [1..Len(DBKeys) -> {-1} \cup 0..MaxCount]}

DomainMaps == {CollectDomain(l) : l \in CounterLists}

\* A table with the cache in front of it disabled: the cache holds nothing
\* (none is the empty cache) when the call filters its input.
Uncached(table, none) == [table |-> table, cache |-> none, txs |-> <<>>]

\* A call of UpsertCounters(cs)
UpsertCountersCall(cs, fault) ==
    /\ nCalls < MaxCalls
    /\ nCalls' = nCalls + 1
    /\ LET r == UpsertCounters(cs, fault, DBState) IN
       /\ dbCounters' = r.st.table
       /\ counterCache' = r.st.cache
       /\ dbLast' = [op |-> "UpsertCounters", rows |-> cs, err |-> r.err]
       /\ dbPrev' = dbLast
       /\ dbTxs' = [work |-> ChangedCounters(cs, counterCache),
                    txs  |-> r.st.txs]
    /\ uncached' = [uncached EXCEPT !.counters =
           UpsertCounters(cs, fault, Uncached(@, <<>>)).st.table]
    /\ UNCHANGED <<storeVars, runVars, dbDomain, attrCache, cronVars, apiVars, redisVars>>

\* A call of UpsertDomain(attributes)
UpsertDomainCall(attributes, fault) ==
    /\ nCalls < MaxCalls
    /\ nCalls' = nCalls + 1
    /\ LET r == UpsertDomain(attributes, fault, DomainState) IN
       /\ dbDomain' = r.st.table
       /\ attrCache' = r.st.cache
       /\ dbLast' = [op |-> "UpsertDomain",
                     rows |-> SetToSeq(Tuples(attributes)), err |-> r.err]
       /\ dbPrev' = dbLast
       /\ dbTxs' = [work |-> SetToSeq(Tuples(attributes) \ attrCache),
                    txs  |-> r.st.txs]
    /\ uncached' = [uncached EXCEPT !.domain =
           UpsertDomain(attributes, fault, Uncached(@, {})).st.table]
    /\ UNCHANGED <<storeVars, runVars, dbCounters, counterCache, cronVars, apiVars, redisVars>>

NextDB ==
    \/ \E cs \in CounterLists : \E fault \in Faults(Len(cs)) :
           UpsertCountersCall(cs, fault)
    \/ \E attributes \in DomainMaps :
           \E fault \in Faults(Cardinality(Tuples(attributes))) :
               UpsertDomainCall(attributes, fault)

SpecDB == Init /\ [][NextDB]_vars

----------------------------------------------------------------------------
(* SpecCron: the server's cron job.  Every fire of the cron starts the      *)
(* registered function on a goroutine of its own:                          *)
(*     snapshotLock.Lock(); defer snapshotLock.Unlock(); snap.Run(now)     *)

Jobs == 1..MaxJobs

\* The content of the store when the server starts: the keys of
\* TestSnapshotter.
InitTestStore ==
    /\ counters = StoreUpdateKeys(<<>>,
           <<StringOrder[3], StringOrder[2], StringOrder[1]>>, "1234")
    /\ nEvents = 0
    /\ added = {}
    /\ clock = 1

\* The cron fires: a goroutine starts and is about to call Lock.
CronFire(j) ==
    /\ jobs[j] = "idle"
    /\ nFires < MaxFires
    /\ nFires' = nFires + 1
    /\ jobs' = [jobs EXCEPT ![j] = "lock"]
    /\ contended' = IF \E k \in 1..MaxJobs : jobs[k] = "run"
                    THEN contended \cup {j}
                    ELSE contended \ {j}
    /\ UNCHANGED <<snapshotLock, storeVars, runVars, dbVars, apiVars, redisVars>>

\* Lock that gives up when the mutex is held: the fire returns at once
LockOrSkip(j) ==
    /\ jobs[j] = "lock"
    /\ IF snapshotLock = 0
       THEN snapshotLock' = j /\ jobs' = [jobs EXCEPT ![j] = "run"]
       ELSE snapshotLock' = snapshotLock /\ jobs' = [jobs EXCEPT ![j] = "idle"]
    /\ UNCHANGED <<contended, nFires, storeVars, runVars, dbVars, apiVars, redisVars>>

\* Lock that does not wait for the holder
LockNoWait(j) ==
    /\ jobs[j] = "lock"
    /\ snapshotLock' = j
    /\ jobs' = [jobs EXCEPT ![j] = "run"]
    /\ UNCHANGED <<contended, nFires, storeVars, runVars, dbVars, apiVars, redisVars>>

\* snapshotLock.Lock(): blocks while another job holds the mutex.
Lock(j) ==
    /\ jobs[j] = "lock"
    /\ snapshotLock = 0
    /\ snapshotLock' = j
    /\ jobs' = [jobs EXCEPT ![j] = "run"]
    /\ UNCHANGED <<contended, nFires, storeVars, runVars, dbVars, apiVars, redisVars>>

\* snap.Run(time.Now().UTC()) returns to the job; its error is only logged.
JobRunReturn(j) ==
    /\ jobs[j] = "run"
    /\ RunReturn
    /\ jobs' = [jobs EXCEPT ![j] = "unlock"]
    /\ UNCHANGED <<snapshotLock, contended, nFires, apiVars, redisVars>>

\* The deferred snapshotLock.Unlock(); the goroutine ends.
Unlock(j) ==
    /\ jobs[j] = "unlock"
    /\ snapshotLock' = 0
    /\ jobs' = [jobs EXCEPT ![j] = "idle"]
    /\ contended' = contended \ {j}
    /\ UNCHANGED <<nFires, storeVars, runVars, dbVars, apiVars, redisVars>>

\* Some job is inside snap.Run.
Running == \E j \in Jobs : jobs[j] = "run"

InitCronSpec == InitTestStore /\ InitRun /\ InitDB /\ InitCron /\ InitAPI /\ InitRedis

NextCron ==
    \/ \E j \in Jobs : CronFire(j)
    \/ \E j \in Jobs : Lock(j)
    \/ Running /\ (\E fail \in BOOLEAN : RunListKeys(Instant(clock), fail))
           /\ UNCHANGED <<cronVars, apiVars, redisVars>>
    \/ Running /\ (\E fail \in BOOLEAN : RunDeleteKeys(fail))
           /\ UNCHANGED <<cronVars, apiVars, redisVars>>
    \/ Running /\ (\E a \in GetCountsAnswers(Keys(update)) : RunGetCounts(a))
           /\ UNCHANGED <<cronVars, apiVars, redisVars>>
    \/ Running /\ (\E fault \in Faults(Len(update)) : RunUpsertCounters(fault))
           /\ UNCHANGED <<cronVars, apiVars, redisVars>>
    \/ Running
           /\ (\E fault \in Faults(Cardinality(Tuples(CollectDomain(update)))) :
                  RunUpsertDomain(fault))
           /\ UNCHANGED <<cronVars, apiVars, redisVars>>
    \/ \E j \in Jobs : JobRunReturn(j)
    \/ \E j \in Jobs : Unlock(j)
    \/ Tick /\ UNCHANGED <<cronVars, apiVars, redisVars>>

SpecCron == InitCronSpec /\ [][NextCron]_vars

----------------------------------------------------------------------------
(* SpecAPI: requests to /v1/ingress served by the handler of                *)
(* NewHTTPHandler, one after the other, while the clock goes on.            *)

\* The tokens of TestAPI_Ingress_Auth.
TestTokens == <<"1234", "2345">>

AuthConfigs == {DefaultAuth, [Required |-> TRUE, Tokens |-> TestTokens]}

\* The configuration of TestAPI_Ingress, and none.
HandlerAttrConfigs ==
    {DefaultAttributes, [Whitelist |-> <<>>, Blacklist |-> << <<"zoo">> >>]}

\* Authorization headers: none, a configured token, an unknown token, no
\* token, another scheme, a bare token.
GoodHeader == <<BearerPrefix, "2345">>
Headers == {<<>>, GoodHeader, <<BearerPrefix, "9999">>, <<BearerPrefix>>,
            <<"Basic ", "2345">>, <<"2345">>}

\* 2017-01-18T12:00:00Z
TestDate == InUTC(420 * Hour)

\* The event of TestAPI_Ingress at the date of the model.
TestEvent ==
    [ID |-> "1234", Date |-> TestDate,
     Attributes |-> (<<"foo">> :> <<"bar">>) @@ (<<"zoo">> :> <<"zip">>)]

\* Bodies: no JSON, the test event, an event with an id only, and events
\* Validate rejects: no id, a colon in a key, a colon in a value.
HandlerBodies ==
    {BadJSON,
     JSON(TestEvent),
     JSON([NoEvent EXCEPT !.ID = "2345"]),
     JSON([TestEvent EXCEPT !.ID = ""]),
     JSON([TestEvent EXCEPT !.Attributes = (<<"a", "b">> :> <<"bar">>)]),
     JSON([TestEvent EXCEPT !.Attributes =
               (<<"foo">> :> <<"bar">>) @@ (<<"zoo">> :> <<"x", "y">>)])}

\* Every method and body with a configured token and with no header, and
\* the other headers on a PUT of the test event.
Requests ==
    {r \in [Method : {"PUT", "GET"}, Header : Headers, Body : HandlerBodies] :
        \/ r.Header \in {GoodHeader, <<>>}
        \/ r.Method = "PUT" /\ r.Body = JSON(TestEvent)}

InitAPISpec ==
    /\ InitStore /\ InitRun /\ InitDB /\ InitCron /\ InitRedis
    /\ authConfig \in AuthConfigs
    /\ attrConfig \in HandlerAttrConfigs
    /\ InitHandler

Serve == \E req \in Requests, fail \in BOOLEAN : ServeHTTP(req, fail)

NextAPI ==
    \/ Serve
    \/ Tick /\ UNCHANGED <<cronVars, apiVars, redisVars>>

SpecAPI == InitAPISpec /\ [][NextAPI]_vars

----------------------------------------------------------------------------
(* SpecKeys: the path from a request body to its counter keys, Validate,    *)
(* Filter, DateIntervals and RequestCounterKeys, over events, dates and     *)
(* attribute configurations.                                                *)

AttrKeys == Range(AttrOrder)
AttrValues == {<<"bar">>, <<"x", "y">>}

\* The attribute mappings of at most MaxAttrs attributes.
AttrMaps ==
    UNION {[S -> AttrValues] :
              S \in {T \in SUBSET AttrKeys : Cardinality(T) <= MaxAttrs}}

\* Event dates: none; the first day of the year 0000; the hours around a
\* change of year, month and week; the run time of the tests; a change of
\* month; and, in the local zone, 2017-01-18T22:00-05:00,
\* 2017-03-08T12:00-05:00, 2017-03-12T12:00-04:00 and
\* 2017-03-13T00:00-04:00.
EventDates ==
    {InUTC(ZeroTime),
     InUTC(FirstDayYearZero * Day),
     InUTC(0 - Hour), InUTC(0),
     InUTC(6 * Day + 23 * Hour), InUTC(7 * Day),
     TestDate,
     InUTC(31 * Day),
     [t |-> 18 * Day + 3 * Hour, loc |-> Local],
     [t |-> 66 * Day + 17 * Hour, loc |-> Local],
     [t |-> 70 * Day + 16 * Hour, loc |-> Local],
     [t |-> 71 * Day + 4 * Hour, loc |-> Local]}

\* Whitelists and blacklists as ParseConfig leaves them, sorted.
Whitelists == {<<>>, << <<"foo">> >>, << <<"baz">>, <<"foo">> >>}
Blacklists == {<<>>, << <<"foo">> >>, << <<"zoo">> >>, << <<"null">> >>}

InitKeys ==
    /\ InitStore /\ InitRun /\ InitDB /\ InitCron /\ InitRedis
    /\ authConfig = DefaultAuth
    /\ attrConfig \in [Whitelist : Whitelists, Blacklist : Blacklists]
    /\ request \in [Method : {"PUT"}, Header : {<<>>},
                    Body : {JSON(e) : e \in [ID : {"1234"}, Date : EventDates,
                                              Attributes : AttrMaps]}]
    /\ status = 0
    /\ event = NoEvent
    /\ intervals = <<>>
    /\ reqKeys = <<>>
    /\ updateCall = NoCall
    /\ nReqs = 0

\* The request is served once.
ServeOnce == nReqs = 0 /\ \E fail \in BOOLEAN : ServeHTTP(request, fail)

NextKeys == ServeOnce

SpecKeys == InitKeys /\ [][NextKeys]_vars

----------------------------------------------------------------------------
(* Properties *)

InList(raw, l) == \E i \in 1..Len(l) : l[i].Raw = raw

Last(q) == q[Len(q)]

StoreOps == {"ListKeys", "DeleteKeys", "GetCounts"}
DBOps == {"UpsertCounters", "UpsertDomain"}

\* The date of a stored key that parses.
Parses(raw) == ParseKey(raw).err = Nil
DateOf(raw) == ParseKey(raw).key.Date

\* C1 (SpecDB): the persisted count of a row never decreases and no row
\* disappears; a row is created or changed only by an UpsertCounters call
\* that offers a count c for it, and then holds c, which exceeds what it held
\* (max(existing, c)).  So offering c1 and then c2 < c1 leaves c1.
CountNeverDecreases ==
    [][ /\ \A r \in DOMAIN dbCounters :
              r \in DOMAIN dbCounters' /\ dbCounters'[r] >= dbCounters[r]
        /\ \A r \in DOMAIN dbCounters' :
              (r \notin DOMAIN dbCounters \/ dbCounters'[r] # dbCounters[r])
              => /\ dbLast'.op = "UpsertCounters"
                 /\ \E i \in 1..Len(dbLast'.rows) :
                        /\ RowOf(dbLast'.rows[i]) = r
                        /\ dbLast'.rows[i].Count = dbCounters'[r] ]_vars

\* C1 witness: an UpsertCounters call that returned nil offered a row a
\* count below the one it holds, and the row kept the higher count.
LowerCountOffered ==
    /\ dbLast.op = "UpsertCounters"
    /\ dbLast.err = Nil
    /\ \E i \in 1..Len(dbLast.rows) :
           /\ RowOf(dbLast.rows[i]) \in DOMAIN dbCounters
           /\ dbCounters[RowOf(dbLast.rows[i])] > dbLast.rows[i].Count

\* C2 (Spec): whenever no run is under way, after any sequence of successful
\* or failed runs, every attribute/value pair of a persisted counter row is
\* in the domain table.
DomainCoversCounters ==
    pc = "idle" =>
        \A r \in DOMAIN dbCounters : \A a \in DOMAIN r[3] :
            <<a, r[3][a]>> \in dbDomain

\* C3 (Spec): when DeleteKeys has just deleted the delete partition, every
\* deleted key has a row in the counters table, written by this run or an
\* earlier one.
DeletedKeysWerePersisted ==
    (pc = "count" /\ Last(runLog).op = "DeleteKeys") =>
        \A i \in 1..Len(delete) : RowOf(delete[i]) \in DOMAIN dbCounters

\* C4 as claimed (Spec): when Run returns without error the store holds no
\* key dated before now - delete_threshold.
NoOldKeyAfterRun ==
    (pc = "done" /\ runErr = Nil) =>
        \A k \in DOMAIN counters :
            Parses(k) => ~Before(DateOf(k), deleteThreshold)

\* C4 as amended (Spec): when Run returns without error the store holds no
\* key dated before now - delete_threshold, other than keys an UpdateKeys
\* call wrote after the run listed the keys.
NoListedOldKeyAfterRun ==
    (pc = "done" /\ runErr = Nil) =>
        \A k \in DOMAIN counters \ added :
            Parses(k) => ~Before(DateOf(k), deleteThreshold)

\* C4 witness: a run that found keys older than the threshold has made all
\* five calls and returns without error.
RunDeletedOldKeys ==
    /\ pc = "done"
    /\ runErr = Nil
    /\ Len(runLog) = 5
    /\ Len(delete) > 0

\* C5 (Spec): FilterKeys puts every parsed key in exactly one of update,
\* ignore and delete, |update| + |ignore| + |delete| = |parsed|, and the
\* keys a run passes to DeleteKeys and those it passes to UpsertCounters
\* have no key in common.
PartitionDisjointTotal ==
    pc \notin {"idle", "filter"} =>
        /\ Len(update) + Len(ignore) + Len(delete) = Len(parsed)
        /\ \A i \in 1..Len(parsed) :
               LET raw == parsed[i].Raw IN
               /\ InList(raw, update) \/ InList(raw, ignore)
                      \/ InList(raw, delete)
               /\ ~(InList(raw, update) /\ InList(raw, ignore))
               /\ ~(InList(raw, update) /\ InList(raw, delete))
               /\ ~(InList(raw, ignore) /\ InList(raw, delete))
        /\ (pc = "upsertDomain" /\ dbLast.op = "UpsertCounters") =>
               Range(Keys(dbLast.rows)) \cap Range(Keys(delete)) = {}

\* C5 witness: a run with keys to delete and keys to update has called
\* DeleteKeys and UpsertCounters.
RunDeletedAndUpserted ==
    /\ pc = "upsertDomain"
    /\ Len(delete) > 0
    /\ Len(update) > 0
    /\ Len(ignore) > 0

\* The interval lengths C6 states, in hours.
ClaimedDelta(interval) ==
    CASE interval = "day" -> 24 [] interval = "week" -> 168
      [] interval = "month" -> 744

\* C6 (SpecFilter): a key is in delete iff its date is strictly before the
\* delete threshold; otherwise in update iff its date plus 24h (day), 7x24h
\* (week) or 31x24h (month) is strictly after the update threshold;
\* otherwise in ignore.
FilterClassification ==
    pc = "filtered" =>
        \A i \in 1..Len(parsed) :
            LET k == parsed[i]
                isDelete == k.Date < deleteThreshold
                isUpdate == /\ ~isDelete
                            /\ k.Date + ClaimedDelta(k.Interval) * Hour
                                   > updateThreshold
            IN  /\ InList(k.Raw, delete) <=> isDelete
                /\ InList(k.Raw, update) <=> isUpdate
                /\ InList(k.Raw, ignore) <=> (~isDelete /\ ~isUpdate)

\* C6 witness: FilterKeys was applied to a key dated exactly at the delete
\* threshold, which it did not delete, and to a month key whose date plus 31
\* days equals the update threshold, which it ignored.
FilterBoundaries ==
    /\ pc = "filtered"
    /\ \E i \in 1..Len(parsed) :
           /\ parsed[i].Date = deleteThreshold
           /\ ~InList(parsed[i].Raw, delete)
    /\ \E i \in 1..Len(parsed) :
           /\ parsed[i].Interval = "month"
           /\ parsed[i].Date + 744 * Hour = updateThreshold
           /\ InList(parsed[i].Raw, ignore)

\* GetCounts answered without error with a list of another length than the
\* update partition, and Run has returned.
LengthMismatch ==
    /\ pc = "done"
    /\ Last(runLog).op = "GetCounts"
    /\ Last(runLog).err = Nil
    /\ Last(runLog).n # Len(update)

\* C7 (Spec): on a length mismatch Run returns a non-nil error and has made
\* no relational call.
LengthMismatchIsError ==
    LengthMismatch =>
        /\ runErr # Nil
        /\ \A i \in 1..Len(runLog) : runLog[i].op \notin DBOps

\* C8 (Spec): an error of ListKeys, DeleteKeys or GetCounts ends the run
\* with that error; the relational tables and caches change only in a run
\* whose ListKeys, DeleteKeys and GetCounts all returned nil; keys leave the
\* store only in a run whose ListKeys returned nil.
StoreErrorAbortsRun ==
    /\ [](\A i \in 1..Len(runLog) :
              (runLog[i].op \in StoreOps /\ runLog[i].err # Nil)
              => /\ i = Len(runLog)
                 /\ pc = "done"
                 /\ runErr = runLog[i].err)
    /\ [][ /\ <<dbCounters, dbDomain, attrCache, counterCache>>'
                 # <<dbCounters, dbDomain, attrCache, counterCache>>
              => /\ Len(runLog) >= 3
                 /\ \A i \in 1..3 : runLog[i].op \in StoreOps
                 /\ \A i \in 1..Len(runLog) : runLog[i].err = Nil
           /\ (DOMAIN counters \ DOMAIN counters') # {}
              => runLog = <<Call("ListKeys", Nil, Len(keys))>> ]_vars

\* C8 witness: DeleteKeys failed in a run that had keys to delete and keys
\* to update, and Run has returned the error.
RunAbortedByDeleteKeys ==
    /\ pc = "done"
    /\ Last(runLog).op = "DeleteKeys"
    /\ runErr = IOError
    /\ Len(delete) > 0
    /\ Len(update) > 0

\* C9 (SpecCron): at most one job is inside snap.Run at any time.
AtMostOneRun == Cardinality({j \in Jobs : jobs[j] = "run"}) <= 1

\* C9 witness: the cron fired again while a snapshot is under way.
FireDuringRun ==
    \E j, k \in Jobs :
        /\ jobs[j] = "run"
        /\ pc \notin {"idle", "done"}
        /\ jobs[k] = "lock"

\* C10 as claimed (SpecCron): a job that fired while a snapshot was running
\* never runs a snapshot.
ContendedFireNeverRuns == \A j \in contended : jobs[j] # "run"

\* C10 as amended (SpecCron): a job that has fired stays at Lock until it
\* acquires the mutex, which it does only when no job is inside snap.Run,
\* and then runs its snapshot: it never returns without running.
FireWaitsThenRuns ==
    [][\A j \in Jobs :
           jobs[j] = "lock" =>
               /\ jobs'[j] \in {"lock", "run"}
               /\ jobs'[j] = "run" => ~Running]_vars

\* C10 witness: a job that fired while a snapshot was running is inside its
\* own snapshot.
ContendedFireRuns ==
    \E j \in contended : jobs[j] = "run" /\ pc \notin {"idle", "done"}

----------------------------------------------------------------------------
(* Properties of the ingress API *)

\* A request has just been served.
Served == nReqs' = nReqs + 1

\* The Authorization header is "Bearer " followed by a configured token.
BearsToken(header, auth) ==
    \E i \in 1..Len(auth.Tokens) : header = <<BearerPrefix, auth.Tokens[i]>>

\* The auth check lets the request through.
Admitted(req, auth) == ~auth.Required \/ BearsToken(req.Header, auth)

\* The body fails JSON decoding, or the event has no id or a ':' in an
\* attribute key or value.
Malformed(body) ==
    \/ ~body.json
    \/ body.req.ID = ""
    \/ \E k \in DOMAIN body.req.Attributes :
           Len(k) > 1 \/ Len(body.req.Attributes[k]) > 1

\* C11 (SpecAPI): when the UpdateKeys call of a valid PUT /v1/ingress
\* returns an error, the handler answers 200 all the same.
StoreFailureStillOK ==
    (updateCall.called /\ updateCall.err # Nil) => status = 200

\* C11 witness: a PUT with a valid event was served, its UpdateKeys call
\* failed and the answer is 200.
UpdateKeysFailed ==
    /\ request.Method = "PUT"
    /\ ~Malformed(request.Body)
    /\ updateCall.called
    /\ updateCall.err = IOError
    /\ status = 200

\* C12 as claimed (SpecAPI): every request with a method other than PUT is
\* answered 405 and every PUT with a malformed body 400, and in both cases
\* UpdateKeys is not called and the store is unchanged.
BadRequestRejected ==
    [][Served =>
          /\ request'.Method # "PUT" => status' = 405
          /\ (request'.Method = "PUT" /\ Malformed(request'.Body))
                 => status' = 400
          /\ (request'.Method # "PUT" \/ Malformed(request'.Body))
                 => ~updateCall'.called /\ counters' = counters ]_vars

\* C12 as amended (SpecAPI): a request the auth check lets through is
\* answered 405 when its method is not PUT and 400 when it is a PUT with a
\* malformed body; whether let through or not, a request of either kind
\* makes no UpdateKeys call and leaves the store unchanged.
AdmittedBadRequestRejected ==
    [][Served =>
          /\ (Admitted(request', authConfig) /\ request'.Method # "PUT")
                 => status' = 405
          /\ (Admitted(request', authConfig) /\ request'.Method = "PUT"
                  /\ Malformed(request'.Body))
                 => status' = 400
          /\ (request'.Method # "PUT" \/ Malformed(request'.Body))
                 => ~updateCall'.called /\ counters' = counters ]_vars

\* C12 witness: with auth required and events in the store, an authorized
\* PUT whose event has a ':' in an attribute was answered 400.
ColonAnswered400 ==
    /\ authConfig.Required
    /\ BearsToken(request.Header, authConfig)
    /\ request.Method = "PUT"
    /\ request.Body.json
    /\ request.Body.req.ID # ""
    /\ status = 400
    /\ ~updateCall.called
    /\ DOMAIN counters # {}

\* C13 (SpecAPI): with auth required, a request whose Authorization header
\* is not "Bearer " followed by a configured token is answered 403, does not
\* reach the handler (no UpdateKeys call) and leaves the store unchanged;
\* so only a request bearing a configured token changes the store.
AuthGate ==
    [][(Served /\ authConfig.Required) =>
          /\ ~BearsToken(request'.Header, authConfig)
                 => /\ status' = 403
                    /\ ~updateCall'.called
                    /\ counters' = counters
          /\ counters' # counters
                 => BearsToken(request'.Header, authConfig) ]_vars

\* C13 witness: with auth required, a request bearing a configured token
\* has put an event in the store and a later PUT of a valid event with an
\* unknown Bearer token was answered 403.
UnknownTokenDenied ==
    /\ authConfig.Required
    /\ request.Header = <<BearerPrefix, "9999">>
    /\ request.Method = "PUT"
    /\ ~Malformed(request.Body)
    /\ status = 403
    /\ DOMAIN counters # {}

\* The attributes an event is counted under: those of the body, or the
\* sentinel when it has none, less what the whitelist and the blacklist
\* drop, or the sentinel when nothing is left.
Sentinel == NullAttribute :> NullAttribute

RetainedOf(attributes, config) ==
    LET given == IF DOMAIN attributes = {} THEN Sentinel ELSE attributes
        W == Range(config.Whitelist)
        B == Range(config.Blacklist)
        kept == (IF W # {} THEN DOMAIN given \cap W ELSE DOMAIN given) \ B
    IN  IF kept = {} THEN Sentinel ELSE [k \in kept |-> given[k]]

\* A mapping of attributes free of ':', as ParseKey gives it: from segment
\* to segment.
Flat(attributes) ==
    [k \in {a[1] : a \in DOMAIN attributes} |-> attributes[<<k>>][1]]

\* The key k is of interval i, carries the label and exactly the
\* attributes given.
KeyOf(k, i, label, attributes) ==
    /\ Len(k) = 2 + 2 * Cardinality(DOMAIN attributes)
    /\ k[1] = i
    /\ k[2] = label
    /\ ParseAttributes(SubSeq(k, 3, Len(k))) = Flat(attributes)

\* The step from store to store' has added id to the three keys of
\* labels and attributes, one of each interval, and changed nothing else.
AddedToThreeKeys(store, storeAfter, id, labels, attributes) ==
    LET touched == {k \in DOMAIN storeAfter :
                       /\ k[1] \in DOMAIN labels
                       /\ KeyOf(k, k[1], labels[k[1]], attributes)}
    IN  /\ Cardinality(touched) = 3
        /\ \A i \in {"day", "week", "month"} : \E k \in touched : k[1] = i
        /\ \A k \in touched :
               storeAfter[k] =
                   (IF k \in DOMAIN store THEN store[k] ELSE {}) \cup {id}
        /\ \A k \in DOMAIN storeAfter \ touched :
               k \in DOMAIN store /\ storeAfter[k] = store[k]
        /\ DOMAIN store \subseteq DOMAIN storeAfter

\* The date of an event of the body: the time of the request when the body
\* gives none.
DateOfEvent(body, now) ==
    IF body.Date.t = ZeroTime THEN InUTC(now) ELSE body.Date

\* C16 (SpecAPI): a PUT answered 200 whose UpdateKeys call returned nil has
\* added the id of the event to exactly three keys of the store, one for
\* each of day, week and month, each made of the interval, the label of the
\* event's date (the time of the request when the event has none) and the
\* retained attributes; every other key of the store is as it was.
ThreeKeysHoldEvent ==
    [][(Served /\ status' = 200 /\ updateCall'.err = Nil) =>
          AddedToThreeKeys(counters, counters', request'.Body.req.ID,
              DateIntervals(AllIntervals,
                  DateOfEvent(request'.Body.req, Instant(clock))),
              RetainedOf(request'.Body.req.Attributes, attrConfig)) ]_vars

\* C16 witness: under the blacklist of zoo, the store holds the three keys
\* of an earlier event and the three keys of the test event, whose PUT was
\* just answered 200.
TwoEventsSixKeys ==
    /\ attrConfig.Blacklist # <<>>
    /\ request.Body = JSON(TestEvent)
    /\ status = 200
    /\ updateCall.called
    /\ updateCall.err = Nil
    /\ Cardinality(DOMAIN counters) = 6
    /\ <<"month", "2017-01", "foo", "bar">> \in DOMAIN counters

----------------------------------------------------------------------------
(* Properties of the keys of an event (SpecKeys) *)

\* The place of an attribute key in ascending order.
Place(k) == CHOOSE i \in 1..Len(AttrOrder) : AttrOrder[i] = <<k>>

\* C14 (SpecKeys): in every key RequestCounterKeys returns the attribute
\* pairs stand in ascending order of attribute key, and in whatever order
\* the attributes and the intervals are gone through the same keys come out.
SortedWhateverOrder ==
    status = 200 =>
        /\ \A k \in Range(reqKeys) :
               \A n, m \in 1..((Len(k) - 2) \div 2) :
                   n < m => Place(k[2 * n + 1]) < Place(k[2 * m + 1])
        /\ \A p \in Orders(DOMAIN event.Attributes),
              q \in Orders(AllIntervals) :
               Range(RequestCounterKeys(intervals, event, p, q))
                   = Range(reqKeys)

\* C14 witness: keys were made of an event with two attributes, baz and
\* foo, which can be supplied in two orders.
TwoAttributesSerialized ==
    /\ status = 200
    /\ DOMAIN event.Attributes = {<<"baz">>, <<"foo">>}
    /\ Len(reqKeys) = 3
    /\ SubSeq(reqKeys[1], 3, 6) = <<"baz", "bar", "foo", "bar">>

\* The day a day label names, parsed by time.Parse or not.
DayNamed(label) ==
    LET w == CHOOSE x \in Range(Windows) :
                 \E i \in 1..Len(x.labels) : x.labels[i] = label
    IN  DayOfLabel(w, label)

\* C15 as claimed (SpecKeys): ParseKey succeeds on every key that
\* RequestCounterKeys built from the labels of DateIntervals and validated
\* attributes, and returns the key's interval, the date its label names and
\* the attributes of the event; a snapshot finds none of the keys invalid.
IngressKeysParse ==
    status = 200 =>
        /\ \A k \in Range(reqKeys) :
               LET r == ParseKey(k) IN
               /\ r.err = Nil
               /\ r.key.Interval = k[1]
               /\ k[2] = intervals[k[1]]
               /\ r.key.Date =
                      (IF k[1] = "month"
                       THEN (CHOOSE m \in Range(Months) : m.label = k[2]).first
                       ELSE DayNamed(k[2])) * Day
               /\ r.key.Attributes = Flat(event.Attributes)
        /\ ParseKeyList(reqKeys).invalid = <<>>

\* The Sunday on or before the day of the time d on its wall clock.
SundayBefore(d) == (Wall(d) \div Day) - ((Wall(d) \div Day) % 7)

\* C17 as claimed (SpecKeys): the week label is the date of the Sunday on
\* or before the date of the event, it names no later day than the day
\* label, and every event dated from that Sunday to the Saturday after it
\* gets the same week label.
WeekLabelIsSunday ==
    status = 200 =>
        /\ intervals["week"] = TimeFormat(DayLayout, SundayBefore(event.Date) * Day)
        /\ DayNamed(intervals["week"]) <= DayNamed(intervals["day"])
        /\ \A d \in EventDates \ {InUTC(ZeroTime)} :
               SundayBefore(d) = SundayBefore(event.Date) =>
                   DateIntervals(AllIntervals, d)["week"] = intervals["week"]

\* An attribute key or value of the body holds ':'.
HasColon(attributes) ==
    \E k \in DOMAIN attributes : Len(k) > 1 \/ Len(attributes[k]) > 1

\* C18 (SpecKeys): an event with ':' in an attribute key or value is
\* rejected by Validate, and the request that carries it is answered 400
\* with no key derived, no UpdateKeys call and nothing stored.
ColonRejected ==
    (nReqs = 1 /\ HasColon(request.Body.req.Attributes)) =>
        /\ Validate(request.Body.req, Instant(clock)).err # Nil
        /\ status = 400
        /\ reqKeys = <<>>
        /\ ~updateCall.called
        /\ DOMAIN counters = {}

\* C18 witness: an event with a well-formed attribute and one whose value
\* holds ':' was answered 400.
ColonValueRejected ==
    /\ nReqs = 1
    /\ status = 400
    /\ \E k \in DOMAIN request.Body.req.Attributes :
           Len(k) = 1 /\ Len(request.Body.req.Attributes[k]) > 1
    /\ \E k \in DOMAIN request.Body.req.Attributes :
           Len(k) = 1 /\ Len(request.Body.req.Attributes[k]) = 1

\* What the whitelist and the blacklist leave of the attribute keys S.
Kept(S, config) ==
    (IF Len(config.Whitelist) > 0 THEN S \cap Range(config.Whitelist) ELSE S)
        \ Range(config.Blacklist)

\* C19 (SpecKeys): keys are never derived from an empty attribute mapping:
\* an event given no attributes has exactly null=null after Validate, and an
\* event of which the filter keeps no attribute is counted under null=null.
NeverWithoutAttributes ==
    status = 200 =>
        LET validated == Validate(request.Body.req, Instant(clock)).req IN
        /\ DOMAIN event.Attributes # {}
        /\ DOMAIN request.Body.req.Attributes = {}
               => validated.Attributes = Sentinel
        /\ Kept(DOMAIN validated.Attributes, attrConfig) = {}
               => event.Attributes = Sentinel
        /\ \A k \in Range(reqKeys) : Len(k) >= 4

\* C19 witness: an event given attributes none of which the filter keeps
\* was counted under null=null.
AllFilteredAway ==
    /\ status = 200
    /\ DOMAIN request.Body.req.Attributes # {}
    /\ NullAttribute \notin DOMAIN request.Body.req.Attributes
    /\ event.Attributes = Sentinel
    /\ reqKeys # <<>>

\* C20 (SpecKeys): with whitelist W, blacklist B and the attributes A that
\* Validate leaves, the event keeps exactly the attributes whose keys are in
\* (A \cap W if W is not empty, else A) \ B, each with the value it had;
\* when that set is empty the event carries the null attribute alone.
FilterRetains ==
    status = 200 =>
        LET A == IF DOMAIN request.Body.req.Attributes = {} THEN Sentinel
                 ELSE request.Body.req.Attributes
            R == Kept(DOMAIN A, attrConfig)
        IN  IF R = {} THEN event.Attributes = Sentinel
            ELSE /\ DOMAIN event.Attributes = R
                 /\ \A k \in R : event.Attributes[k] = A[k]

\* C20 witness: under a whitelist and a blacklist, of two attributes given
\* one was kept.
WhiteAndBlackFiltered ==
    /\ status = 200
    /\ Len(attrConfig.Whitelist) > 0
    /\ Len(attrConfig.Blacklist) > 0
    /\ Cardinality(DOMAIN request.Body.req.Attributes) = 2
    /\ Cardinality(DOMAIN event.Attributes) = 1
    /\ event.Attributes # Sentinel

----------------------------------------------------------------------------
(* Properties of ParseKeyList (SpecParse) *)

\* The entries of ks that parse, and those that do not, in the order of ks.
Parseable(ks) == SelectSeq(ks, LAMBDA k : ParseKey(k).err = Nil)
Unparseable(ks) == SelectSeq(ks, LAMBDA k : ParseKey(k).err # Nil)

\* C28 (SpecParse): ParseKeyList goes through the whole list: the parsed
\* keys are the entries that parse and the invalid list the entries that do
\* not, each once for each of its occurrences and in input order, so that
\* the two lists together have the length of the input; Run goes on to
\* DeleteKeys without an error, and the three partitions hold parsed keys
\* only, each parsed key in one of them.
ParseKeyListTotal ==
    [][pc = "listed" =>
          /\ Keys(parsed') = Parseable(keys)
          /\ \A i \in 1..Len(parsed') : parsed'[i] = ParseKey(parsed'[i].Raw).key
          /\ invalid' = Unparseable(keys)
          /\ Len(parsed') + Len(invalid') = Len(keys)
          /\ pc' = "delete"
          /\ runErr' = Nil
          /\ Range(update') \cup Range(ignore') \cup Range(delete')
                 = Range(parsed')
          /\ Len(update') + Len(ignore') + Len(delete') = Len(parsed')]_vars

\* C28 witness: the list had an entry that does not parse before one that
\* does, both came out, and Run is at DeleteKeys.
BadEntryBeforeGood ==
    /\ pc = "delete"
    /\ \E i, j \in 1..Len(keys) :
           /\ i < j
           /\ keys[i] \in Range(invalid)
           /\ keys[j] \in Range(Keys(parsed))
    /\ runErr = Nil

----------------------------------------------------------------------------
(* Properties of the counts a run persists (SpecCounts) *)

\* The number of ids the store holds for the key k.
CountOf(k) == IF k \in DOMAIN counters THEN Cardinality(counters[k]) ELSE 0

----------------------------------------------------------------------------
(* Properties of the relational writer's transactions (SpecDB) *)

\* The step is the call UpsertCounters(cs) meeting the fault.
IsUpsertCounters(cs, fault) ==
    LET r == UpsertCounters(cs, fault, DBState) IN
    /\ nCalls' = nCalls + 1
    /\ dbLast' = [op |-> "UpsertCounters", rows |-> cs, err |-> r.err]
    /\ dbCounters' = r.st.table
    /\ counterCache' = r.st.cache

\* The step is the call UpsertDomain(attributes) meeting the fault.
IsUpsertDomain(attributes, fault) ==
    LET r == UpsertDomain(attributes, fault, DomainState) IN
    /\ nCalls' = nCalls + 1
    /\ dbLast' = [op |-> "UpsertDomain",
                  rows |-> SetToSeq(Tuples(attributes)), err |-> r.err]
    /\ dbDomain' = r.st.table
    /\ attrCache' = r.st.cache

CommitFault == [kind |-> "commit", chunk |-> 1]

\* C29 as claimed (SpecDB): a call whose chunk has rows to write and whose
\* commit fails returns an error and adds none of the chunk's rows to its
\* cache.
CommitFailureIsReturned ==
    [][ /\ \A cs \in CounterLists :
               (/\ ChangedCounters(cs, counterCache) # <<>>
                /\ IsUpsertCounters(cs, CommitFault))
               => /\ dbLast'.err # Nil
                  /\ counterCache' = counterCache
        /\ \A attributes \in DomainMaps :
               (/\ Tuples(attributes) \ attrCache # {}
                /\ IsUpsertDomain(attributes, CommitFault))
               => /\ dbLast'.err # Nil
                  /\ attrCache' = attrCache ]_vars

\* C23 (SpecDB): a call that repeats the last call, which returned nil,
\* with the same rows and counts and meets no fault returns nil as well and
\* leaves the counters table and the attributes_domain table as the first
\* call left them.
RepeatedUpsertIdempotent ==
    [][ /\ \A cs \in CounterLists :
               (/\ dbLast = [op |-> "UpsertCounters", rows |-> cs, err |-> Nil]
                /\ IsUpsertCounters(cs, NoFault))
               => /\ dbLast'.err = Nil
                  /\ dbCounters' = dbCounters
                  /\ dbDomain' = dbDomain
        /\ \A attributes \in DomainMaps :
               (/\ dbLast = [op |-> "UpsertDomain",
                             rows |-> SetToSeq(Tuples(attributes)), err |-> Nil]
                /\ IsUpsertDomain(attributes, NoFault))
               => /\ dbLast'.err = Nil
                  /\ dbCounters' = dbCounters
                  /\ dbDomain' = dbDomain ]_vars

\* C23 witness: UpsertCounters was called twice with the same two counters
\* and counts, returned nil both times, and the table holds the two rows.
UpsertedTwice ==
    /\ dbLast.op = "UpsertCounters"
    /\ dbPrev = dbLast
    /\ dbLast.err = Nil
    /\ Len(dbLast.rows) = 2
    /\ \A i \in 1..Len(dbLast.rows) :
           /\ RowOf(dbLast.rows[i]) \in DOMAIN dbCounters
           /\ dbLast.rows[i].Count > 0
           /\ dbCounters[RowOf(dbLast.rows[i])] = dbLast.rows[i].Count

\* C30 as claimed (SpecDB): every tuple of the domain cache is a row of the
\* attributes_domain table.
CachedTuplesCommitted == attrCache \subseteq dbDomain

----------------------------------------------------------------------------
(* Properties of UpdateKeys against the mock's store (SpecUpdates) *)

\* The store that holds the pairs P and nothing else.
StoreOf(P) ==
    [k \in {p[1] : p \in P} |-> {p[2] : p \in {q \in P : q[1] = k}}]

\* C22 (SpecUpdates): after any sequence of UpdateKeys calls the store is
\* the one that holds, for each key, the ids of the pairs the calls that
\* returned nil have added, whatever the order of the calls and however
\* often a pair was added; and a call that adds no new pair changes nothing.
StoreIsSetOfPairs ==
    /\ [](counters = StoreOf(pairs))
    /\ [][pairs' = pairs => counters' = counters]_vars

\* C22 witness: two calls have added two ids to one key and one id to
\* another key.
TwoCallsOverlap ==
    /\ nEvents = 2
    /\ \E k, l \in DOMAIN counters :
           /\ counters[k] = Ids
           /\ Cardinality(counters[l]) = 1

----------------------------------------------------------------------------
(* Properties of the pooled client (SpecRedis) *)

\* A call returns in this step.
Returns(op) == reply'.n = reply.n + 1 /\ reply'.op = op

\* The id of the UpdateKeys call in flight is on some of its keys only.
Partial == upd.active /\ upd.done # {}

\* The names the last UpdateKeys call was to add its id to.
NamesOf(u) == {Prefixed(u.keys[i]) : i \in 1..Len(u.keys)}

\* C21 as claimed (SpecRedis): the id of an UpdateKeys call is never on
\* some of the call's keys only, and a ListKeys during which an UpdateKeys
\* call has created all its keys, none of them deleted since, returns all
\* of these keys or none of them.
UpdateSeenWhole ==
    /\ []~Partial
    /\ [][(/\ Returns("ListKeys")
           /\ reply'.err = Nil
           /\ scan'.during
           /\ ~upd.active
           /\ upd.created = NamesOf(upd)
           /\ upd.created \subseteq DOMAIN redis)
          => \/ upd.created \subseteq Range(reply'.res)
             \/ upd.created \cap Range(reply'.res) = {}]_vars

\* C21 as amended (SpecRedis): the server executes the adds of an
\* UpdateKeys call in one step: whenever a command of another call is
\* executed (the transaction of GetCounts, the DEL of DeleteKeys, a SCAN of
\* ListKeys), the id of a call in flight is on none of the call's keys, and
\* when the call has returned nil the id is on every one of them that has
\* not been deleted since.
UpdateAppliedAtOnce ==
    /\ []~Partial
    /\ [][Returns("UpdateKeys") /\ reply'.err = Nil
          => \A n \in NamesOf(upd) :
                 n \in DOMAIN redis' /\ upd.id \in redis'[n]]_vars

\* C21 witness: GetCounts has returned the counts of the two keys of an
\* UpdateKeys call that is in flight, and neither key holds the id.
CountedDuringUpdate ==
    /\ upd.active
    /\ Len(upd.keys) = 2
    /\ reply.op = "GetCounts"
    /\ reply.err = Nil
    /\ reply.keys = upd.keys
    /\ \A k \in Range(upd.keys) :
           /\ reply.res[k] = PFCount(redis, Prefixed(k))
           /\ (Prefixed(k) \in DOMAIN redis => upd.id \notin redis[Prefixed(k)])

\* C24 as claimed (SpecRedis): UpdateKeys, GetCounts or DeleteKeys called
\* with no key on a connection that is up sends no command and returns nil,
\* GetCounts with an empty result.
EmptyListIsNoOp ==
    (/\ reply.op \in {"UpdateKeys", "GetCounts", "DeleteKeys"}
     /\ reply.keys = <<>>
     /\ ~reply.down)
    => /\ reply.cmds = <<>>
       /\ reply.err = Nil
       /\ reply.res = <<>>

Unprefixed(name) == SubSeq(name, Len(RedisKeyPrefix) + 1, Len(name))

\* C25 as claimed (SpecRedis): a ListKeys during which the keyspace did
\* not change returns the names the keyspace holds under the namespace,
\* each once, in ascending order and without the prefix.
ListKeysSortedUnprefixed ==
    [][(Returns("ListKeys") /\ reply'.err = Nil /\ scan'.quiet)
       => LET listed == SortNames(DOMAIN redis \cap Namespace) IN
          reply'.res = [i \in 1..Len(listed) |-> Unprefixed(listed[i])]]_vars

----------------------------------------------------------------------------
(* Properties of the counter cache (SpecDB) *)

\* UpsertCounters leaves the record c out of its updates.
Elided(c, cache) == c.Raw \in DOMAIN cache /\ cache[c.Raw] = c.Count

\* C31 as claimed (SpecDB): whenever a call of UpsertCounters elides a
\* record because the counter cache holds an equal count for its raw key,
\* the counters table holds a row for the key's interval, date and
\* attributes with a count at least that value.
ElidedRowsCommitted ==
    [][ (nCalls' = nCalls + 1 /\ dbLast'.op = "UpsertCounters")
        => \A i \in 1..Len(dbLast'.rows) :
               Elided(dbLast'.rows[i], counterCache)
               => /\ RowOf(dbLast'.rows[i]) \in DOMAIN dbCounters
                  /\ dbCounters[RowOf(dbLast'.rows[i])]
                         >= dbLast'.rows[i].Count ]_vars

----------------------------------------------------------------------------
(* SpecChunks: a direct call of the DatabaseClient whose working set needs  *)
(* one, two or three transactions and, when it returned an error, the same *)
(* call once more.                                                         *)

\* The counter 'day:2017-01-10:n:<i>' with the count c
BulkCounter(i, c) ==
    WithCount(ParseKey(<<"day", "2017-01-10", "n", ToString(i)>>).key, c)

\* The list lengths around the transaction size limit
BulkSizes ==
    {TransactionSizeLimit, TransactionSizeLimit + 1,
     2 * TransactionSizeLimit + 1}

BulkLists ==
    {[i \in 1..n |-> BulkCounter(i, 1)] : n \in BulkSizes}

BulkDomains ==
    {[a \in {"n"} |-> {ToString(i) : i \in 1..n}] : n \in BulkSizes}

\* No call was made yet, or the one call made was op(rows) and failed.
FirstOrRetry(op, rows) ==
    \/ nCalls = 0
    \/ /\ nCalls = 1
       /\ dbLast.op = op
       /\ dbLast.err # Nil
       /\ dbLast.rows = rows

NextChunks ==
    \/ \E cs \in BulkLists : \E fault \in Faults(Len(cs)) :
           /\ FirstOrRetry("UpsertCounters", cs)
           /\ UpsertCountersCall(cs, fault)
    \/ \E attributes \in BulkDomains :
           \E fault \in Faults(Cardinality(Tuples(attributes))) :
               /\ FirstOrRetry("UpsertDomain", SetToSeq(Tuples(attributes)))
               /\ UpsertDomainCall(attributes, fault)

SpecChunks == Init /\ [][NextChunks]_vars

----------------------------------------------------------------------------
(* Properties of the chunks of a relational call (SpecChunks) *)

\* The rows of the transactions txs, one transaction after the other
RECURSIVE RowsOf(_)
RowsOf(txs) ==
    IF txs = <<>> THEN <<>> ELSE txs[1].stmts \o RowsOf(Tail(txs))

IsPrefix(p, q) == Len(p) <= Len(q) /\ p = SubSeq(q, 1, Len(p))

\* C39 (SpecChunks): every transaction the last call of UpsertDomain or
\* UpsertCounters opened was handed at most 256 rows and at least one; the
\* rows of its transactions, in the order they were opened, are the rows
\* its filtered working set begins with, each taken once, and are the whole
\* working set when no transaction failed to begin or to execute.
ChunksCoverWorkingSet ==
    /\ \A i \in 1..Len(dbTxs.txs) :
           /\ Len(dbTxs.txs[i].stmts) <= 256
           /\ Len(dbTxs.txs[i].stmts) >= 1
    /\ IsPrefix(RowsOf(dbTxs.txs), dbTxs.work)
    /\ dbLast.err = Nil => RowsOf(dbTxs.txs) = dbTxs.work

\* C39 witness: after a first call failed in its second transaction, the
\* call was made again; its working set is shorter than its input and
\* longer than one transaction takes, and it returned nil.
RetryInTwoChunks ==
    /\ nCalls = 2
    /\ dbLast.err = Nil
    /\ Len(dbTxs.work) < Len(dbLast.rows)
    /\ Len(dbTxs.work) > TransactionSizeLimit
    /\ Len(dbTxs.txs) = 2
    /\ Len(dbTxs.txs[1].stmts) = TransactionSizeLimit

\* f and g agree at x: both lack it or both hold it with the same value.
SameAt(f, g, x) ==
    /\ x \in DOMAIN f <=> x \in DOMAIN g
    /\ x \in DOMAIN f => f[x] = g[x]

\* The step is a direct call one of whose row statements failed.
ExecFailed ==
    /\ nCalls' = nCalls + 1
    /\ dbTxs'.txs # <<>>
    /\ Last(dbTxs'.txs).end = "exec failed"

\* The rows of the transactions the call opened before its last one
Earlier(txs) == RowsOf(SubSeq(txs, 1, Len(txs) - 1))

\* C32 (SpecChunks): a call one of whose row statements failed returns the
\* error, and the failing transaction is the last it opened; every
\* transaction before it was committed, and its rows are in the table and
\* in the cache; at every other row and cache entry, those of the failing
\* and of the later chunks included, the table and the cache are as they
\* were before the call.
ExecFailureAborts ==
    [][ ExecFailed =>
        /\ dbLast'.err = DBError
        /\ \A i \in 1..(Len(dbTxs'.txs) - 1) :
               dbTxs'.txs[i].end = "committed"
        /\ dbLast'.op = "UpsertCounters" =>
               LET earlier == Range(Earlier(dbTxs'.txs)) IN
               /\ \A c \in earlier :
                      /\ RowOf(c) \in DOMAIN dbCounters'
                      /\ dbCounters'[RowOf(c)] >= c.Count
                      /\ c.Raw \in DOMAIN counterCache'
                      /\ counterCache'[c.Raw] = c.Count
               /\ \A c \in Range(dbLast'.rows) \ earlier :
                      /\ SameAt(dbCounters, dbCounters', RowOf(c))
                      /\ SameAt(counterCache, counterCache', c.Raw)
               /\ DOMAIN dbCounters' \subseteq
                      DOMAIN dbCounters \cup {RowOf(c) : c \in earlier}
               /\ dbDomain' = dbDomain /\ attrCache' = attrCache
        /\ dbLast'.op = "UpsertDomain" =>
               LET earlier == Range(Earlier(dbTxs'.txs)) IN
               /\ dbDomain' = dbDomain \cup earlier
               /\ attrCache' = attrCache \cup earlier
               /\ dbCounters' = dbCounters /\ counterCache' = counterCache
      ]_vars

\* C32 witness: a call whose working set takes three transactions failed
\* at a row statement of the second; the first transaction is committed.
ExecFailedInSecondChunk ==
    /\ Len(dbTxs.work) > 2 * TransactionSizeLimit
    /\ Len(dbTxs.txs) = 2
    /\ dbTxs.txs[1].end = "committed"
    /\ dbTxs.txs[2].end = "exec failed"
    /\ dbLast.err = DBError
    /\ Cardinality(dbDomain) + Cardinality(DOMAIN dbCounters)
           = TransactionSizeLimit

----------------------------------------------------------------------------
(* SpecCache: the direct calls of SpecDB with the two recency caches        *)
(* evicting entries between the calls.  A 2Q cache of a fixed size evicts  *)
(* when an Add finds it full; which entry goes depends on sizes and        *)
(* recency the model leaves open, so any entry may go at any time.         *)

\* counterCache evicts the entry of a raw key
EvictCounter(raw) ==
    /\ raw \in DOMAIN counterCache
    /\ counterCache' = [k \in DOMAIN counterCache \ {raw} |-> counterCache[k]]
    /\ UNCHANGED <<storeVars, runVars, dbCounters, dbDomain, attrCache, dbLast,
                   dbPrev, dbTxs, uncached, nCalls, cronVars, apiVars,
                   redisVars>>

\* attrCache evicts a tuple
EvictTuple(tuple) ==
    /\ tuple \in attrCache
    /\ attrCache' = attrCache \ {tuple}
    /\ UNCHANGED <<storeVars, runVars, dbCounters, dbDomain, counterCache,
                   dbLast, dbPrev, dbTxs, uncached, nCalls, cronVars, apiVars,
                   redisVars>>

NextCache ==
    \/ \E cs \in CounterLists : \E fault \in Faults(Len(cs)) :
           UpsertCountersCall(cs, fault)
    \/ \E attributes \in DomainMaps :
           \E fault \in Faults(Cardinality(Tuples(attributes))) :
               UpsertDomainCall(attributes, fault)
    \/ \E raw \in DOMAIN counterCache : EvictCounter(raw)
    \/ \E tuple \in attrCache : EvictTuple(tuple)

SpecCache == Init /\ [][NextCache]_vars

----------------------------------------------------------------------------
(* Properties of the recency caches (SpecCache) *)

\* C33 as claimed (SpecCache): after any calls and evictions the counters
\* table and the attributes_domain table are the tables the same calls give
\* when both caches are disabled.
CachesOnlyElide ==
    /\ dbCounters = uncached.counters
    /\ dbDomain = uncached.domain

----------------------------------------------------------------------------
(* Properties of the delete partition under any thresholds (SpecFilter).    *)
(* updateThreshold and deleteThreshold are the instants now - U and        *)
(* now - D for the configured durations U and D, so D >= U + d is          *)
(* deleteThreshold + d <= updateThreshold.                                 *)

\* The update condition: the key could still be receiving events.
Updatable(k) == k.Date + ClaimedDelta(k.Interval) * Hour > updateThreshold

\* C34 as claimed (SpecFilter): whatever the two thresholds, no key of the
\* delete partition satisfies the update condition.
NeverDeletesUpdatable ==
    pc = "filtered" => \A i \in 1..Len(delete) : ~Updatable(delete[i])

\* C34 amended (SpecFilter): a key of the delete partition does not satisfy
\* the update condition when the configured delete threshold is at least
\* the update threshold plus the key's interval (24h, 7 or 31 days).
NeverDeletesUpdatableIfOrdered ==
    pc = "filtered" =>
        \A i \in 1..Len(delete) :
            deleteThreshold + ClaimedDelta(delete[i].Interval) * Hour
                <= updateThreshold
            => ~Updatable(delete[i])

\* C34 witness: with the delete threshold 31 days before the update
\* threshold FilterKeys deleted a month key, and kept another key.
DeletedUnderOrderedThresholds ==
    /\ pc = "filtered"
    /\ deleteThreshold + 744 * Hour <= updateThreshold
    /\ \E i \in 1..Len(delete) : delete[i].Interval = "month"
    /\ Len(update) + Len(ignore) > 0

----------------------------------------------------------------------------
(* SpecRepair: ingress racing with snapshot runs that all return nil.  The  *)
(* runs are made at RunTime, one after the other with no time passing      *)
(* between them, so their period is below the update threshold; the store  *)
(* never fails, and the relational writer fails in no way Run gets to see: *)
(* it works or its commit fails.  A run that has started takes its steps.  *)

UnseenFaults(n) == {f \in Faults(n) : f.kind \in {"none", "commit"}}

RunSteps ==
    /\ \/ RunListKeys(RunTime, FALSE)
       \/ RunDeleteKeys(FALSE)
       \/ RunGetCounts([counts |-> StoreGetCounts(counters, Keys(update)),
                        err |-> Nil])
       \/ \E fault \in UnseenFaults(Len(update)) : RunUpsertCounters(fault)
       \/ \E fault \in
              UnseenFaults(Cardinality(Tuples(CollectDomain(update)))) :
                  RunUpsertDomain(fault)
       \/ RunReturn
    /\ UNCHANGED <<cronVars, apiVars, redisVars>>

NextRepair ==
    \/ Ingress /\ UNCHANGED <<cronVars, apiVars, redisVars>>
    \/ RunSteps

\* Every step of a run changes pc.
SpecRepair == Init /\ [][NextRepair]_vars /\ WF_pc(RunSteps)

----------------------------------------------------------------------------
(* Properties of runs racing with ingress (SpecRepair) *)

\* The key whose interval is current at RunTime: day:2017-01-18:foo:bar
CurrentKey == StringOrder[3]

\* The store holds at least n ids for the current key, and a run is yet to
\* start.
Ingested(n) ==
    /\ CurrentKey \in DOMAIN counters
    /\ Cardinality(counters[CurrentKey]) >= n
    /\ pc = "idle"
    /\ nRuns < MaxRuns

\* The counters table holds a count of at least n for the current key.
Persisted(n) ==
    /\ RowOf(ParseKey(CurrentKey).key) \in DOMAIN dbCounters
    /\ dbCounters[RowOf(ParseKey(CurrentKey).key)] >= n

----------------------------------------------------------------------------
(* Properties of what a run does to the approximate store (Spec) *)

\* The step is a step of Run: every one of them moves pc, ingress does not.
IsRunStep == pc' # pc

\* C36 (Spec): the DeleteKeys call of a run, when it returns nil, removes
\* from the store the keys of the delete partition and no other: every
\* other key stays with its ids, among them the keys of the update and
\* ignore partitions and the keys that failed to parse; every other step
\* of the run leaves the store as it is.
RunRemovesDeletePartition ==
    [][ IsRunStep =>
        IF pc = "delete" /\ pc' = "count"
        THEN /\ \A k \in Range(Keys(delete)) : k \notin DOMAIN counters'
             /\ \A k \in DOMAIN counters \ Range(Keys(delete)) :
                    /\ k \in DOMAIN counters'
                    /\ counters'[k] = counters[k]
             /\ DOMAIN counters' \subseteq DOMAIN counters
             /\ (Range(Keys(update)) \cup Range(Keys(ignore))
                    \cup Range(invalid)) \cap Range(Keys(delete)) = {}
        ELSE counters' = counters ]_vars

\* C36 witness: a run no ingress interfered with has returned nil; it had
\* keys in all three partitions and a key that failed to parse, and the
\* store holds all of them but the deleted one.
RunKeptAllButDeleted ==
    /\ pc = "done"
    /\ runErr = Nil
    /\ Last(runLog).op = "UpsertDomain"
    /\ added = {}
    /\ Len(update) > 0 /\ Len(ignore) > 0 /\ Len(delete) > 0
    /\ Len(invalid) > 0
    /\ DOMAIN counters = Range(keys) \ Range(Keys(delete))

----------------------------------------------------------------------------
(* Properties of what a run writes to the relational store (Spec) *)

\* The attribute/value pairs of the entries of a list
PairsOf(l) ==
    UNION {{<<a, l[i].Attributes[a]>> : a \in DOMAIN l[i].Attributes} :
               i \in 1..Len(l)}

RowsOfKeys(l) == {RowOf(l[i]) : i \in 1..Len(l)}

\* C37 (Spec): the UpsertCounters call of a run is handed the update
\* partition and changes no row but rows of its entries; its UpsertDomain
\* call is handed exactly the attribute/value pairs of the update entries
\* and adds no other pair; no other step of the run changes the two
\* tables.  So the rows of the ignore and delete partitions stay as they
\* were, and their pairs are added only where an update entry has them.
RunWritesUpdatePartitionOnly ==
    [][ IsRunStep =>
        /\ \A row \in (DOMAIN dbCounters \cup DOMAIN dbCounters')
                          \ RowsOfKeys(update) :
               SameAt(dbCounters, dbCounters', row)
        /\ dbDomain \subseteq dbDomain'
        /\ dbDomain' \subseteq dbDomain \cup PairsOf(update)
        /\ pc = "upsertCounters" => dbLast'.rows = update
        /\ pc = "upsertDomain" => Range(dbLast'.rows) = PairsOf(update)
        /\ pc \notin {"upsertCounters", "upsertDomain"} =>
               dbCounters' = dbCounters /\ dbDomain' = dbDomain
        /\ \A row \in RowsOfKeys(ignore) \cup RowsOfKeys(delete) :
               SameAt(dbCounters, dbCounters', row)
        /\ dbDomain' \cap (PairsOf(ignore) \cup PairsOf(delete))
               \subseteq dbDomain \cup PairsOf(update) ]_vars

\* C37 witness: the run of TestSnapshotter has returned nil: of its three
\* keys, one in each partition, the counters table holds the row of the
\* update entry only and the domain table its pair foo/bar only.
RunWroteUpdateEntryOnly ==
    /\ pc = "done"
    /\ runErr = Nil
    /\ Len(update) = 1 /\ Len(ignore) = 1 /\ Len(delete) = 1
    /\ DOMAIN dbCounters = RowsOfKeys(update)
    /\ dbDomain = {<<"foo", "bar">>}
    /\ PairsOf(ignore) = {<<"foo", "baz">>}
    /\ PairsOf(delete) = {<<"zip", "zap">>}

----------------------------------------------------------------------------
(* Properties of the labels of one instant (SpecKeys) *)

\* The event of the request served, dated the same instant in the zone loc
Redated(loc) == [event EXCEPT !.Date = [t |-> event.Date.t, loc |-> loc]]

\* C38 as claimed (SpecKeys): the day, week and month labels of an accepted
\* event are those of its instant in UTC, and the same event dated the same
\* instant with the offset of any zone gets the same labels and the same
\* counter keys.
SameInstantSameKeys ==
    status = 200 =>
        /\ intervals = DateIntervals(AllIntervals, InUTC(event.Date.t))
        /\ \A loc \in Locations :
               /\ DateIntervals(AllIntervals, Redated(loc).Date) = intervals
               /\ \A p \in Orders(DOMAIN event.Attributes),
                     q \in Orders(AllIntervals) :
                      Range(RequestCounterKeys(
                          DateIntervals(AllIntervals, Redated(loc).Date),
                          Redated(loc), p, q)) = Range(reqKeys)

----------------------------------------------------------------------------
(* SpecParseKey: ParseKey as a function of its argument.                   *)

\* The strings ParseKey is applied to: the leading segments, up to seven,
\* of an interval, a date and K/V segments.  The intervals are the three
\* ParseKey knows, 'foo' and the empty string; the dates are a day, a
\* Sunday, a month and a year.  Among them are the inputs of TestParseKey.
KeyIntervals == {"day", "week", "month", "foo", ""}
KeyDates == {"2017-01-18", "2017-01-15", "2017-01", "2017"}
MaxSegments == 7

KeyAttrs == <<"foo", "bar", "zip", "zap">>

KeyInputs ==
    {[k \in 1..n |-> IF k = 1 THEN i
                     ELSE IF k = 2 THEN d
                     ELSE KeyAttrs[((k - 3) % Len(KeyAttrs)) + 1]] :
        i \in KeyIntervals, d \in KeyDates, n \in 1..MaxSegments}

\* ParseKey(raw), called directly as TestParseKey does
ParseKeyCall ==
    /\ \E raw \in KeyInputs :
           LET r == ParseKey(raw) IN
           parseCall' = [raw |-> raw, key |-> r.key, err |-> r.err]
    /\ UNCHANGED <<storeVars, pc, keys, parsed, invalid, updateThreshold,
                   deleteThreshold, update, ignore, delete, runErr, runLog,
                   nRuns, dbVars, cronVars, apiVars, redisVars>>

NextParseKey == ParseKeyCall

SpecParseKey == Init /\ [][NextParseKey]_vars

----------------------------------------------------------------------------
(* Properties of ParseKey (SpecParseKey) *)

TooFewSegments(raw) == Len(raw) < 4
UnknownInterval(raw) == raw[1] \notin {"day", "week", "month"}
DateOffFormat(raw) ==
    raw[2] \notin DOMAIN (IF raw[1] = "month" THEN MonthLabels ELSE DayLabels)
OddAttributes(raw) == (Len(raw) - 2) % 2 = 1

\* C40 (SpecParseKey): ParseKey reports the first failure in a fixed order:
\* 'invalid format' for a key of fewer than four segments; else 'invalid
\* interval' with the first segment when that is not day, week or month;
\* else 'invalid date' with the second segment when that is not a date of
\* the interval's layout; else 'key/value attributes not even' when the
\* number of remaining segments is odd; otherwise it returns no error and
\* the parsed key.
ParseKeyFirstFailure ==
    parseCall # NoParse =>
        LET raw == parseCall.raw
            err == parseCall.err
        IN  IF TooFewSegments(raw)
            THEN err = Errorf("invalid format", "")
            ELSE IF UnknownInterval(raw)
            THEN err = Errorf("invalid interval", raw[1])
            ELSE IF DateOffFormat(raw)
            THEN err = Errorf("invalid date", raw[2])
            ELSE IF OddAttributes(raw)
            THEN err = Errorf("key/value attributes not even", "")
            ELSE /\ err = Nil
                 /\ parseCall.key.Raw = raw
                 /\ parseCall.key.Interval = raw[1]

\* C40 witness: a key of an unknown interval, a date of no layout and an odd
\* number of K/V segments was reported as of an invalid interval.
ThreeDefectsFirstReported ==
    /\ parseCall.raw = <<"foo", "2017", "foo", "bar", "zip">>
    /\ parseCall.err = Errorf("invalid interval", "foo")

====
